---- MODULE Spec2Model ----
(***************************************************************************)
(* Model of the preprocessing pipeline of the code-analysis backend:       *)
(*   services/progress_tracker.py   ProgressTracker                        *)
(*   services/preprocessing_sys.py  PreprocessingOrchestrator              *)
(*   services/code_chunker.py       CodeChunker._generate_chunk_id         *)
(*   services/file_processor.py     FileProcessor.process_all_files        *)
(*   views/analysis.py              start_analysis / run_preprocessing_task*)
(*                                                                         *)
(* Percentages are Python floats in the code.  Here a percentage x is the  *)
(* integer x * Scale, where Scale is a common multiple of every possible   *)
(* item total, so that (current / total) * 100 is represented exactly.     *)
(***************************************************************************)
EXTENDS Integers, Sequences, FiniteSets, TLC

\* ------------------------------------------------------------------ bounds
MaxFiles == 2
MaxUnits == 2
MaxRuns == 2

\* ------------------------------------------------------------- input sets
Projects == {"A", "B"}
Names == 1..MaxFiles
Units == 1..MaxUnits
Dirs == {1, 2}
Categories == {"process", "skip", "config", "test", "documentation"}
Errors == {"stage_error"}

RECURSIVE Fact(_)
Fact(n) == IF n <= 1 THEN 1 ELSE n * Fact(n - 1)

\* one percent, in the integer representation of percentages
Scale == Fact(MaxFiles)

\* a file of the project tree: absent, or classified with the code units
\* (functions, classes) its content holds; a source file may be unreadable
\* (open() or the utf-8 decoding fails), and then its units are never seen
FileKinds ==
    {[cat |-> c, units |-> {}, readable |-> TRUE] :
        c \in (Categories \ {"process"}) \cup {"absent"}}
    \cup {[cat |-> "process", units |-> us, readable |-> TRUE] : us \in SUBSET Units}
    \cup {[cat |-> "process", units |-> {}, readable |-> FALSE]}

\* ------------------------------------------------------ models/progress.py
ProgressStage ==
    << "upload", "extraction", "analysis", "file_processing",
       "code_chunking", "semantic_indexing", "doc_generation", "completed" >>

StageIndex(stage) == CHOOSE i \in 1..Len(ProgressStage) : ProgressStage[i] = stage

\* ProjectProgress column defaults; exists = FALSE: no row for the project
NewProgress ==
    [ exists |-> FALSE,
      status |-> "queued",
      current_stage |-> "upload",
      overall_percentage |-> 0,
      current_stage_percentage |-> 0,
      total_files |-> 0,
      processed_files |-> 0,
      current_file |-> 0,
      total_chunks |-> 0,
      processed_chunks |-> 0,
      started_at |-> 0,
      completed_at |-> 0,
      error_message |-> "none" ]

\* ------------------------------------------- services/progress_tracker.py
StageWeights ==
    [ upload |-> 5, extraction |-> 5, analysis |-> 15, file_processing |-> 25,
      code_chunking |-> 25, semantic_indexing |-> 20, doc_generation |-> 5 ]

WeightedStages == DOMAIN StageWeights

RECURSIVE SumOver(_, _)
SumOver(f, S) ==
    IF S = {} THEN 0
    ELSE LET x == CHOOSE y \in S : TRUE IN f[x] + SumOver(f, S \ {x})

\* completed_stages of _update_overall_percentage: 100 for the weighted
\* stages before the current one, the stage percentage for the current one
CompletedStages(rec) ==
    [ s \in WeightedStages |->
        IF s = rec.current_stage THEN rec.current_stage_percentage
        ELSE IF StageIndex(s) < StageIndex(rec.current_stage) THEN 100 * Scale
        ELSE 0 ]

\* ProgressTracker._update_overall_percentage
UpdateOverallPercentage(rec) ==
    LET completed == CompletedStages(rec)
        total_weight == SumOver(StageWeights, WeightedStages)
        weighted_sum ==
            SumOver([s \in WeightedStages |-> (completed[s] * StageWeights[s]) \div 100],
                    WeightedStages)
    IN  [rec EXCEPT !.overall_percentage = (weighted_sum * 100) \div total_weight]

\* ProgressTracker.add_activity: stage defaults to the record's current stage
Activity(rec, type, kind, stage) ==
    [ activity_type |-> type, kind |-> kind,
      stage |-> IF stage = "none" THEN rec.current_stage ELSE stage ]

\* ProgressTracker._get_or_create_progress
GetOrCreateProgress(rec) ==
    IF rec.exists THEN rec ELSE [NewProgress EXCEPT !.exists = TRUE]

\* ProgressTracker.start_stage
StartStage(rec, stage, total_items, now) ==
    LET r1 == [rec EXCEPT !.current_stage = stage,
                          !.status = "in_progress",
                          !.current_stage_percentage = 0]
        r2 == IF stage = "file_processing"
              THEN [r1 EXCEPT !.total_files = total_items, !.processed_files = 0]
              ELSE IF stage = "code_chunking"
              THEN [r1 EXCEPT !.total_chunks = total_items, !.processed_chunks = 0]
              ELSE r1
    IN  IF r2.started_at = 0 THEN [r2 EXCEPT !.started_at = now] ELSE r2

\* ProgressTracker.complete_stage
CompleteStage(rec) ==
    UpdateOverallPercentage([rec EXCEPT !.current_stage_percentage = 100 * Scale])

\* ProgressTracker.complete_processing
CompleteProcessing(rec, now) ==
    [rec EXCEPT !.status = "completed",
                !.current_stage = "completed",
                !.overall_percentage = 100 * Scale,
                !.completed_at = now]

\* ProgressTracker.mark_failed
MarkFailed(rec, error_message, now) ==
    [rec EXCEPT !.status = "failed",
                !.error_message = error_message,
                !.completed_at = now]

\* ProgressTracker.update_file_progress
UpdateFileProgress(rec, file_name, current, total) ==
    LET r1 == [rec EXCEPT !.current_file = file_name,
                          !.processed_files = current,
                          !.total_files = total]
        r2 == IF total > 0
              THEN [r1 EXCEPT !.current_stage_percentage =
                                  (current * 100 * Scale) \div total]
              ELSE r1
    IN  UpdateOverallPercentage(r2)

\* the throttle of update_file_progress: every 10th file and the last one
FileActivityDue(current, total) == current % 10 = 0 \/ current = total

\* ProgressTracker.update_chunk_progress
UpdateChunkProgress(rec, chunks_created) ==
    LET r1 == [rec EXCEPT !.processed_chunks = @ + chunks_created]
        r2 == IF r1.total_chunks > 0
              THEN [r1 EXCEPT !.current_stage_percentage =
                                  (r1.processed_chunks * 100 * Scale) \div r1.total_chunks]
              ELSE r1
    IN  UpdateOverallPercentage(r2)

\* --------------------------------------------- services/code_chunker.py
\* CodeChunker._generate_chunk_id: a digest of "file_path:name:line"; the
\* project id is no part of it
GenerateChunkId(file_path, name, line) == << file_path, name, line >>

\* ------------------------------------------- services/file_processor.py
\* FileProcessor._calculate_priority: a function of the path alone; paths
\* with an even name carry an entry-point name (10), the others none (5)
CalculatePriority(name) == IF name % 2 = 0 THEN 10 ELSE 5

\* ------------------------------------------------------------------ state
VARIABLES
    shape,              \* input: the file tree, [Names -> FileKinds]
    dir,                \* input: top directory of each project's tree
    projectStatus,      \* Project.status of each project
    progress,           \* project_progress row of each project
    activities,         \* progress_activities rows of each project, in order
    fileRows,           \* file_metadata table
    chunkRows,          \* code_chunks table
    repoRows,           \* repository_metadata table
    savedIndex,         \* search_indices/<project id> on disk
    pc,                 \* position of the background task
    cur,                \* project of the running task
    runNo,              \* number of tasks started so far; the clock
    sessionOk,          \* FALSE: the task's Session awaits a rollback()
    file_metadata_list, \* _run_file_processing's result
    sorted_files,       \* _run_code_chunking's processing order
    idx,                \* loop counter of the running stage
    all_chunks,         \* chunks created by this run
    results,            \* run_full_pipeline's results dict
    exc,                \* exception in flight, "none" if none
    calls,              \* start_stage / complete_stage calls of this run
    fn,                 \* service called on its own ("pipeline": none)
    arg,                \* its input
    ret,                \* << >>, or the result of its call
    searcher,           \* the SemanticSearch instances: index and chunk_ids
    indexFiles,         \* faiss.index and chunk_ids.pkl of save_index
    agentPc,            \* position of the multi-agent analysis task
    agentFor,           \* project of the multi-agent analysis task
    agentRuns,          \* number of multi-agent analyses started so far
    tasks,              \* the preprocessing tasks queued or running
    response            \* the last answer of POST /start, and its number

vars == << shape, dir, projectStatus, progress, activities, fileRows, chunkRows,
           repoRows, savedIndex, pc, cur, runNo, sessionOk, file_metadata_list,
           sorted_files, idx, all_chunks, results, exc, calls, fn, arg, ret,
           searcher, indexFiles, agentPc, agentFor, agentRuns, tasks, response >>

\* what the pipeline of one task leaves alone
sideVars == << agentPc, agentFor, agentRuns, tasks, response >>
inputVars == << shape, dir, fn, arg, ret, searcher, indexFiles, sideVars >>
dbVars == << progress, activities, fileRows, chunkRows, repoRows >>
loopVars == << file_metadata_list, sorted_files, idx, all_chunks >>

\* relative path of file `name` in project p's tree
PathOf(p, name) == << dir[p], name >>

\* Path.rglob('*') filtered by is_file(), in path order
FileList == [i \in 1..Cardinality({n \in Names : shape[n].cat # "absent"}) |->
                CHOOSE n \in Names :
                    /\ shape[n].cat # "absent"
                    /\ Cardinality({m \in Names : m < n /\ shape[m].cat # "absent"}) = i - 1]

\* FileProcessor.process_all_files: the files of one category, in list order
ProcessAllFiles(file_list, category) ==
    SelectSeq(file_list, LAMBDA n : shape[n].cat = category)

\* sorted(file_metadata_list, key=priority_level, reverse=True): stable,
\* descending
RECURSIVE SortedByPriority(_)
SortedByPriority(files) ==
    IF files = << >> THEN << >>
    ELSE LET best == CHOOSE i \in 1..Len(files) :
                        /\ \A j \in 1..Len(files) :
                              CalculatePriority(files[j]) <= CalculatePriority(files[i])
                        /\ \A j \in 1..(i - 1) :
                              CalculatePriority(files[j]) < CalculatePriority(files[i])
             rest == [k \in 1..(Len(files) - 1) |->
                        IF k < best THEN files[k] ELSE files[k + 1]]
         IN  << files[best] >> \o SortedByPriority(rest)

\* CodeChunker.chunk_file: no chunk for a file that cannot be read, else
\* one chunk per code unit of the file; unit u is named u and starts at
\* line u
ChunkFileOf(p, name) ==
    IF ~shape[name].readable THEN << >> ELSE
    [k \in 1..Cardinality(shape[name].units) |->
        LET u == CHOOSE v \in shape[name].units :
                    Cardinality({w \in shape[name].units : w < v}) = k - 1
        IN  [ id |-> GenerateChunkId(PathOf(p, name), u, u),
              file_path |-> PathOf(p, name), name |-> u, start_line |-> u ]]

SeqRange(sq) == {sq[i] : i \in 1..Len(sq)}

Append2(sq, a, b) == Append(Append(sq, a), b)

\* start_analysis: project_path of the background task
ProjectPath(p) == << "backend", "app", "storage", "projects", p >>

\* _run_semantic_indexing: index_dir = project_path.parent / "search_indices"
PipelineIndexDir(p) ==
    SubSeq(ProjectPath(p), 1, Len(ProjectPath(p)) - 1) \o << "search_indices" >>

\* the semantic_search endpoint: index_dir
SearchIndexDir == << "backend", "app", "projects", "search_indices" >>

\* SemanticSearch.load_index(project_id, load_dir) on the saved artifacts:
\* FileNotFoundError unless load_dir / project_id exists
LoadIndexOutcome(p, load_dir) ==
    IF load_dir = PipelineIndexDir(p) /\ savedIndex[p].exists
    THEN "loaded" ELSE "FileNotFoundError"

\* the state before any analysis was requested
NothingStarted ==
    /\ projectStatus = [p \in Projects |-> "uploaded"]
    /\ progress = [p \in Projects |-> NewProgress]
    /\ activities = [p \in Projects |-> << >>]
    /\ fileRows = {}
    /\ chunkRows = {}
    /\ repoRows = {}
    /\ savedIndex = [p \in Projects |-> [exists |-> FALSE, chunk_ids |-> << >>]]
    /\ pc = "idle"
    /\ cur = "A"
    /\ runNo = 0
    /\ sessionOk = TRUE
    /\ file_metadata_list = << >>
    /\ sorted_files = << >>
    /\ idx = 0
    /\ all_chunks = << >>
    /\ results = [status |-> "none", error |-> "none"]
    /\ exc = "none"
    /\ calls = << >>
    /\ searcher = [i \in {"built", "fresh"} |->
                      [loaded |-> FALSE, vectors |-> << >>, chunk_ids |-> << >>]]
    /\ indexFiles = [exists |-> FALSE, vectors |-> << >>, chunk_ids |-> << >>]
    /\ agentPc = "idle"
    /\ agentFor = "A"
    /\ agentRuns = 0
    /\ tasks = {}
    /\ response = [project |-> "A", status_code |-> 0, request_no |-> 0]

Init ==
    /\ shape \in [Names -> FileKinds]
    /\ dir \in [Projects -> Dirs]
    /\ dir["A"] = 1
    /\ fn = "pipeline"
    /\ arg = << >>
    /\ ret = << >>
    /\ NothingStarted

\* ----------------------------------------------------- views/analysis.py
\* start_analysis: rejected (HTTP 400) while the project is processing;
\* one background task is modelled at a time
StartAnalysis(p) ==
    /\ pc = "idle"
    /\ runNo < MaxRuns
    /\ projectStatus[p] # "processing"
    /\ projectStatus' = [projectStatus EXCEPT ![p] = "processing"]
    /\ pc' = "queued"
    /\ cur' = p
    /\ runNo' = runNo + 1
    /\ UNCHANGED << inputVars, dbVars, savedIndex, sessionOk, loopVars,
                    results, exc, calls >>

\* run_preprocessing_task up to the call of run_full_pipeline: a fresh
\* Session, PreprocessingOrchestrator.__init__ (ProgressTracker.__init__),
\* and the results dict of run_full_pipeline
BeginTask ==
    /\ pc = "queued"
    /\ sessionOk' = TRUE
    /\ progress' = [progress EXCEPT ![cur] = GetOrCreateProgress(@)]
    /\ file_metadata_list' = << >>
    /\ sorted_files' = << >>
    /\ idx' = 0
    /\ all_chunks' = << >>
    /\ results' = [status |-> "processing", error |-> "none"]
    /\ exc' = "none"
    /\ calls' = << >>
    /\ pc' = "analysis"
    /\ UNCHANGED << inputVars, projectStatus, activities, fileRows, chunkRows,
                    repoRows, savedIndex, cur, runNo >>

\* ------------------------------------- services/preprocessing_sys.py
\* a step of a stage raises: the analyzer, the directory scan, the
\* embedding model or the index file may fail
StageRaises(e) ==
    /\ pc \in {"analysis", "file_processing", "code_chunking",
               "semantic_indexing", "embedding"}
    /\ exc' = e
    /\ pc' = "except"
    /\ UNCHANGED << inputVars, projectStatus, dbVars, savedIndex, cur, runNo,
                    sessionOk, loopVars, results, calls >>

\* _run_repository_analysis
RunRepositoryAnalysis ==
    /\ pc = "analysis"
    /\ activities' = [activities EXCEPT ![cur] =
            Append(@, Activity(progress[cur], "info", "detected", "none"))]
    /\ repoRows' = repoRows \cup {[id |-> runNo, project_id |-> cur]}
    /\ pc' = "file_processing"
    /\ UNCHANGED << inputVars, projectStatus, progress, fileRows, chunkRows,
                    savedIndex, cur, runNo, sessionOk, loopVars, results, exc,
                    calls >>

\* _run_file_processing up to the loop: scan, classify, start_stage
StartFileProcessing ==
    /\ pc = "file_processing"
    /\ LET to_process == ProcessAllFiles(FileList, "process")
           rec == StartStage(progress[cur], "file_processing", Len(to_process), runNo)
       IN  /\ progress' = [progress EXCEPT ![cur] = rec]
           /\ activities' = [activities EXCEPT ![cur] =
                  Append(@, Activity(rec, "milestone", "started", "file_processing"))]
    /\ calls' = Append(calls, << "start_stage", "file_processing" >>)
    /\ idx' = 0
    /\ file_metadata_list' = << >>
    /\ pc' = "fp_loop"
    /\ UNCHANGED << inputVars, projectStatus, fileRows, chunkRows, repoRows,
                    savedIndex, cur, runNo, sessionOk, sorted_files, all_chunks,
                    results, exc >>

\* one iteration of the loop over processed_files["process"]
ProcessFile ==
    /\ pc = "fp_loop"
    /\ LET to_process == ProcessAllFiles(FileList, "process")
           total_to_process == Len(to_process)
       IN  /\ idx < total_to_process
           /\ LET processed_count == idx + 1
                  name == to_process[processed_count]
                  rec == UpdateFileProgress(progress[cur], name,
                                            processed_count, total_to_process)
              IN  /\ fileRows' = fileRows \cup
                         {[ id |-> << runNo, name >>, project_id |-> cur,
                            file_path |-> PathOf(cur, name),
                            language |-> "known",
                            should_skip |-> FALSE, is_processed |-> FALSE ]}
                  /\ file_metadata_list' = Append(file_metadata_list, name)
                  /\ progress' = [progress EXCEPT ![cur] = rec]
                  /\ activities' = [activities EXCEPT ![cur] =
                         IF FileActivityDue(processed_count, total_to_process)
                         THEN Append(@, Activity(rec, "info", "file", "none"))
                         ELSE @]
                  /\ idx' = processed_count
    /\ UNCHANGED << inputVars, projectStatus, chunkRows, repoRows, savedIndex,
                    pc, cur, runNo, sessionOk, sorted_files, all_chunks,
                    results, exc, calls >>

\* the rest of _run_file_processing: the rows of the skipped files, the
\* commit, complete_stage and the add_info for more than 10 skipped files
FinishFileProcessing ==
    /\ pc = "fp_loop"
    /\ idx = Len(ProcessAllFiles(FileList, "process"))
    /\ LET skipped == ProcessAllFiles(FileList, "skip")
           rec == CompleteStage(progress[cur])
           done == Activity(rec, "success", "completed", "file_processing")
       IN  /\ fileRows' = fileRows \cup
                  {[ id |-> << runNo, name >>, project_id |-> cur,
                     file_path |-> PathOf(cur, name),
                     language |-> "none",
                     should_skip |-> TRUE, is_processed |-> FALSE ] :
                   name \in SeqRange(skipped)}
           /\ progress' = [progress EXCEPT ![cur] = rec]
           /\ activities' = [activities EXCEPT ![cur] =
                  IF Len(skipped) > 10
                  THEN Append2(@, done, Activity(rec, "info", "skipped", "none"))
                  ELSE Append(@, done)]
    /\ calls' = Append(calls, << "complete_stage", "file_processing" >>)
    /\ pc' = "code_chunking"
    /\ UNCHANGED << inputVars, projectStatus, chunkRows, repoRows, savedIndex,
                    cur, runNo, sessionOk, loopVars, results, exc >>

\* _run_code_chunking up to the loop: sort by priority, start_stage with
\* the number of files as total_items
StartCodeChunking ==
    /\ pc = "code_chunking"
    /\ LET sorted == SortedByPriority(file_metadata_list)
           rec == StartStage(progress[cur], "code_chunking", Len(sorted), runNo)
       IN  /\ sorted_files' = sorted
           /\ progress' = [progress EXCEPT ![cur] = rec]
           /\ activities' = [activities EXCEPT ![cur] =
                  Append(@, Activity(rec, "milestone", "started", "code_chunking"))]
    /\ calls' = Append(calls, << "start_stage", "code_chunking" >>)
    /\ idx' = 0
    /\ all_chunks' = << >>
    /\ pc' = "cc_loop"
    /\ UNCHANGED << inputVars, projectStatus, fileRows, chunkRows, repoRows,
                    savedIndex, cur, runNo, sessionOk, file_metadata_list,
                    results, exc >>

\* the loop of _run_code_chunking running over every scanned file, with no
\* test of should_skip
ChunkFileEveryScannedFile ==
    /\ pc = "cc_loop"
    /\ idx < Len(FileList)
    /\ LET name == FileList[idx + 1]
           chunks == ChunkFileOf(cur, name)
           rec == UpdateChunkProgress(progress[cur], Len(chunks))
       IN  /\ chunkRows' = chunkRows \cup
                  {[ id |-> chunks[k].id, project_id |-> cur,
                     file_id |-> << runNo, name >>,
                     file_path |-> chunks[k].file_path,
                     embedding_id |-> << "none", 0 >> ] : k \in 1..Len(chunks)}
           /\ fileRows' = {IF r.id = << runNo, name >>
                           THEN [r EXCEPT !.is_processed = TRUE] ELSE r :
                           r \in fileRows}
           /\ progress' = [progress EXCEPT ![cur] = rec]
           /\ activities' = [activities EXCEPT ![cur] =
                  Append(@, Activity(rec, "info", "chunks", "none"))]
           /\ all_chunks' = all_chunks \o [k \in 1..Len(chunks) |-> chunks[k].id]
           /\ idx' = idx + 1
    /\ UNCHANGED << inputVars, projectStatus, repoRows, savedIndex, pc, cur, runNo,
                    sessionOk, file_metadata_list, sorted_files, results, exc,
                    calls >>

\* one iteration of the loop over sorted_files: a file whose record has
\* should_skip set or no language is passed over; else chunk_file, the
\* CodeChunk rows, and update_chunk_progress, whose commit flushes the rows.  code_chunks.id is
\* the primary key: a row whose id is already stored makes the flush fail
\* with an IntegrityError, the transaction is rolled back and the Session
\* refuses further work until rollback() is called
ChunkFile ==
    /\ pc = "cc_loop"
    /\ idx < Len(sorted_files)
    /\ LET name == sorted_files[idx + 1]
           chunks == ChunkFileOf(cur, name)
           stored == {r.id : r \in chunkRows}
           rec == UpdateChunkProgress(progress[cur], Len(chunks))
           file_meta == CHOOSE r \in fileRows : r.id = << runNo, name >>
       IN  IF file_meta.should_skip \/ file_meta.language = "none"
           THEN /\ idx' = idx + 1
                /\ UNCHANGED << dbVars, all_chunks, sessionOk, exc, pc >>
           ELSE IF \E k \in 1..Len(chunks) : chunks[k].id \in stored
           THEN /\ sessionOk' = FALSE
                /\ exc' = "integrity_error"
                /\ pc' = "except"
                /\ UNCHANGED << dbVars, idx, all_chunks >>
           ELSE /\ chunkRows' = chunkRows \cup
                       {[ id |-> chunks[k].id, project_id |-> cur,
                          file_id |-> << runNo, name >>,
                          file_path |-> chunks[k].file_path,
                          embedding_id |-> << "none", 0 >> ] : k \in 1..Len(chunks)}
                /\ fileRows' = {IF r.id = << runNo, name >>
                                THEN [r EXCEPT !.is_processed = TRUE] ELSE r :
                                r \in fileRows}
                /\ progress' = [progress EXCEPT ![cur] = rec]
                /\ activities' = [activities EXCEPT ![cur] =
                       Append(@, Activity(rec, "info", "chunks", "none"))]
                /\ all_chunks' = all_chunks \o [k \in 1..Len(chunks) |-> chunks[k].id]
                /\ idx' = idx + 1
                /\ UNCHANGED << repoRows, sessionOk, exc, pc >>
    /\ UNCHANGED << inputVars, projectStatus, savedIndex, cur, runNo,
                    file_metadata_list, sorted_files, results, calls >>

\* _run_code_chunking returning without reporting the stage's completion
FinishCodeChunkingNoComplete ==
    /\ pc = "cc_loop"
    /\ idx = Len(sorted_files)
    /\ activities' = [activities EXCEPT ![cur] =
           Append(@, Activity(progress[cur], "info", "created", "none"))]
    /\ pc' = "semantic_indexing"
    /\ UNCHANGED << inputVars, projectStatus, progress, fileRows, chunkRows,
                    repoRows, savedIndex, cur, runNo, sessionOk, loopVars,
                    results, exc, calls >>

\* the rest of _run_code_chunking: commit, complete_stage, add_info
FinishCodeChunking ==
    /\ pc = "cc_loop"
    /\ idx = Len(sorted_files)
    /\ LET rec == CompleteStage(progress[cur])
       IN  /\ progress' = [progress EXCEPT ![cur] = rec]
           /\ activities' = [activities EXCEPT ![cur] =
                  Append2(@, Activity(rec, "success", "completed", "code_chunking"),
                             Activity(rec, "info", "created", "none"))]
    /\ calls' = Append(calls, << "complete_stage", "code_chunking" >>)
    /\ pc' = "semantic_indexing"
    /\ UNCHANGED << inputVars, projectStatus, fileRows, chunkRows, repoRows,
                    savedIndex, cur, runNo, sessionOk, loopVars, results, exc >>

\* _run_semantic_indexing up to create_embeddings: returns at once when
\* there is no chunk, else start_stage and the first add_info
StartSemanticIndexing ==
    /\ pc = "semantic_indexing"
    /\ IF all_chunks = << >>
       THEN /\ pc' = "complete"
            /\ UNCHANGED << progress, activities, calls >>
       ELSE LET rec == StartStage(progress[cur], "semantic_indexing", 0, runNo)
            IN  /\ progress' = [progress EXCEPT ![cur] = rec]
                /\ activities' = [activities EXCEPT ![cur] =
                       Append2(@, Activity(rec, "milestone", "started", "semantic_indexing"),
                                  Activity(rec, "info", "embedding", "none"))]
                /\ calls' = Append(calls, << "start_stage", "semantic_indexing" >>)
                /\ pc' = "embedding"
    /\ UNCHANGED << inputVars, projectStatus, fileRows, chunkRows, repoRows,
                    savedIndex, cur, runNo, sessionOk, loopVars, results, exc >>

\* the rest of _run_semantic_indexing: embeddings, index, save_index, the
\* embedding ids, commit, complete_stage
FinishSemanticIndexing ==
    /\ pc = "embedding"
    /\ LET rec == CompleteStage(progress[cur])
           pos(id) == CHOOSE i \in 1..Len(all_chunks) : all_chunks[i] = id
       IN  /\ progress' = [progress EXCEPT ![cur] = rec]
           /\ activities' = [activities EXCEPT ![cur] =
                  Append2(@, Activity(progress[cur], "info", "indexing", "none"),
                             Activity(rec, "success", "completed", "semantic_indexing"))]
           /\ chunkRows' = {IF r.id \in SeqRange(all_chunks)
                            THEN [r EXCEPT !.embedding_id = << cur, pos(r.id) - 1 >>]
                            ELSE r : r \in chunkRows}
    /\ savedIndex' = [savedIndex EXCEPT ![cur] =
                         [exists |-> TRUE, chunk_ids |-> all_chunks]]
    /\ calls' = Append(calls, << "complete_stage", "semantic_indexing" >>)
    /\ pc' = "complete"
    /\ UNCHANGED << inputVars, projectStatus, fileRows, repoRows, cur, runNo,
                    sessionOk, loopVars, results, exc >>

\* run_full_pipeline after the last stage: complete_processing, return
CompletePipeline ==
    /\ pc = "complete"
    /\ LET rec == CompleteProcessing(progress[cur], runNo)
       IN  /\ progress' = [progress EXCEPT ![cur] = rec]
           /\ activities' = [activities EXCEPT ![cur] =
                  Append(@, Activity(rec, "milestone", "complete", "completed"))]
    /\ results' = [results EXCEPT !.status = "completed"]
    /\ pc' = "returned"
    /\ UNCHANGED << inputVars, projectStatus, fileRows, chunkRows, repoRows,
                    savedIndex, cur, runNo, sessionOk, loopVars, exc, calls >>

\* the except clause of run_full_pipeline: results, mark_failed, raise.
\* mark_failed commits on the task's Session; on a Session that awaits a
\* rollback the commit raises and the row keeps its stored values
HandleException ==
    /\ pc = "except"
    /\ results' = [status |-> "failed", error |-> exc]
    /\ IF sessionOk
       THEN LET rec == MarkFailed(progress[cur], exc, runNo)
            IN  /\ progress' = [progress EXCEPT ![cur] = rec]
                /\ activities' = [activities EXCEPT ![cur] =
                       Append(@, Activity(rec, "error", "failed", "none"))]
                /\ exc' = exc
       ELSE /\ exc' = "pending_rollback"
            /\ UNCHANGED << progress, activities >>
    /\ pc' = "raised"
    /\ UNCHANGED << inputVars, projectStatus, fileRows, chunkRows, repoRows,
                    savedIndex, cur, runNo, sessionOk, loopVars, calls >>

\* ----------------------------------------------------- views/analysis.py
\* run_preprocessing_task after run_full_pipeline returned
FinishTask ==
    /\ pc = "returned"
    /\ projectStatus' = [projectStatus EXCEPT ![cur] = "completed"]
    /\ pc' = "idle"
    /\ UNCHANGED << inputVars, dbVars, savedIndex, cur, runNo, sessionOk,
                    loopVars, results, exc, calls >>

\* the except clause of run_preprocessing_task: the Project query runs on
\* the same Session and raises when that awaits a rollback
FailTask ==
    /\ pc = "raised"
    /\ projectStatus' = IF sessionOk
                        THEN [projectStatus EXCEPT ![cur] = "failed"]
                        ELSE projectStatus
    /\ pc' = "idle"
    /\ UNCHANGED << inputVars, dbVars, savedIndex, cur, runNo, sessionOk,
                    loopVars, results, exc, calls >>

Next ==
    \/ \E p \in Projects : StartAnalysis(p)
    \/ BeginTask
    \/ \E e \in Errors : StageRaises(e)
    \/ RunRepositoryAnalysis
    \/ StartFileProcessing
    \/ ProcessFile
    \/ FinishFileProcessing
    \/ StartCodeChunking
    \/ ChunkFile
    \/ FinishCodeChunking
    \/ StartSemanticIndexing
    \/ FinishSemanticIndexing
    \/ CompletePipeline
    \/ HandleException
    \/ FinishTask
    \/ FailTask

Spec == Init /\ [][Next]_vars

\* ------------------------------------ services/analysis_orchestrator.py
\* The multi-agent analysis: POST /api/v1/agent_analysis/start queues
\* AnalysisOrchestrationService.start_analysis whatever the state of the
\* project, and the task runs next to a preprocessing task of the project.
MaxAgentRuns == 1

notAgentVars == << shape, dir, fn, arg, ret, searcher, indexFiles, tasks,
                   response, projectStatus, fileRows, chunkRows, repoRows,
                   savedIndex, pc, cur, runNo, sessionOk, loopVars, results,
                   exc, calls >>

\* how the workflow of the agents can end: some agent completed, none did,
\* or the workflow raised
AgentOutcomes == {"agent_completed", "none_completed", "workflow_failed"}

\* start_agent_analysis, and start_analysis up to "Starting multi-agent
\* analysis": the progress row of the project is reset, or created
StartAgentAnalysis(p) ==
    /\ agentPc = "idle"
    /\ agentRuns < MaxAgentRuns
    /\ progress' = [progress EXCEPT ![p] =
           [(IF @.exists THEN @ ELSE [NewProgress EXCEPT !.exists = TRUE])
               EXCEPT !.status = "in_progress",
                      !.current_stage = "analysis",
                      !.overall_percentage = 10 * Scale,
                      !.started_at = runNo + agentRuns + 1]]
    /\ activities' = [activities EXCEPT ![p] =
           Append(@, [activity_type |-> "info", kind |-> "agents", stage |-> "null"])]
    /\ agentPc' = "started"
    /\ agentFor' = p
    /\ agentRuns' = agentRuns + 1
    /\ UNCHANGED notAgentVars

\* start_analysis from the read of the files and chunks to the commit
\* before the agents run
PrepareAgents ==
    /\ agentPc = "started"
    /\ progress' = [progress EXCEPT ![agentFor] =
           [@ EXCEPT !.current_stage = "analysis",
                     !.overall_percentage = 20 * Scale]]
    /\ agentPc' = "prepared"
    /\ UNCHANGED << notAgentVars, activities, agentFor, agentRuns >>

\* _execute_with_tracking and the rest of start_analysis. The first agent
\* that completed makes the loop read ActivityType.PROGRESS, which the
\* enum does not have: the AttributeError reaches the except clause of
\* start_analysis before overall_percentage is written.
ExecuteAgents(outcome) ==
    /\ agentPc = "prepared"
    /\ progress' = [progress EXCEPT ![agentFor] =
           IF outcome = "none_completed"
           THEN [@ EXCEPT !.status = "completed",
                          !.current_stage = "completed",
                          !.overall_percentage = 100 * Scale,
                          !.completed_at = runNo + agentRuns]
           ELSE [@ EXCEPT !.status = "failed",
                          !.error_message = outcome]]
    /\ activities' = [activities EXCEPT ![agentFor] =
           IF outcome = "none_completed"
           THEN Append(@, [activity_type |-> "success", kind |-> "agents",
                           stage |-> "null"])
           ELSE IF outcome = "workflow_failed"
           THEN Append(@, [activity_type |-> "error", kind |-> "agents",
                           stage |-> "null"])
           ELSE @]
    /\ agentPc' = "idle"
    /\ UNCHANGED << notAgentVars, agentFor, agentRuns >>

NextAgents ==
    \/ \E p \in Projects : StartAgentAnalysis(p)
    \/ PrepareAgents
    \/ \E outcome \in AgentOutcomes : ExecuteAgents(outcome)

\* the repositories the two services are run side by side on: every file
\* absent or a readable source file of one unit
InitAgents ==
    /\ Init
    /\ \A n \in Names :
          shape[n] \in { [cat |-> "absent", units |-> {}, readable |-> TRUE],
                        [cat |-> "process", units |-> {1}, readable |-> TRUE] }

\* the preprocessing pipeline with the multi-agent analysis next to it
SpecAgents == InitAgents /\ [][Next \/ NextAgents]_vars

\* ==================================================== functions of the services
\* Strings are sequences of one-character strings, so that `in`, endswith,
\* lower() and Path.suffix are computed on the characters.

\* ------------------------------------------- services/file_processor.py
\* sub in s
Contains(s, sub) ==
    \E i \in 1..(Len(s) - Len(sub) + 1) : SubSeq(s, i, i + Len(sub) - 1) = sub

\* s.endswith(sub)
EndsWith(s, sub) ==
    Len(sub) <= Len(s) /\ SubSeq(s, Len(s) - Len(sub) + 1, Len(s)) = sub

\* s.startswith(sub)
StartsWith(s, sub) == Len(sub) <= Len(s) /\ SubSeq(s, 1, Len(sub)) = sub

UpperCase == << "A", "B", "C", "D", "E", "F", "G", "H", "I", "J", "K", "L", "M",
               "N", "O", "P", "Q", "R", "S", "T", "U", "V", "W", "X", "Y", "Z" >>

LowerCase == << "a", "b", "c", "d", "e", "f", "g", "h", "i", "j", "k", "l", "m",
               "n", "o", "p", "q", "r", "s", "t", "u", "v", "w", "x", "y", "z" >>

\* s.lower()
RECURSIVE Lower(_)
Lower(s) ==
    IF s = << >> THEN << >>
    ELSE << IF \E k \in 1..26 : UpperCase[k] = Head(s)
            THEN LowerCase[CHOOSE k \in 1..26 : UpperCase[k] = Head(s)]
            ELSE Head(s) >> \o Lower(Tail(s))

\* Path(file_path).name
PathName(file_path) ==
    IF \E i \in 1..Len(file_path) : file_path[i] = "/"
    THEN LET last == CHOOSE i \in 1..Len(file_path) :
                        /\ file_path[i] = "/"
                        /\ \A j \in (i + 1)..Len(file_path) : file_path[j] # "/"
         IN  SubSeq(file_path, last + 1, Len(file_path))
    ELSE file_path

\* Path(file_path).suffix: from the last dot of the name, unless that dot
\* opens or ends the name
PathSuffix(file_path) ==
    LET name == PathName(file_path)
        dots == {i \in 1..Len(name) : name[i] = "."}
    IN  IF dots = {} THEN << >>
        ELSE LET last == CHOOSE i \in dots : \A j \in dots : j <= i
             IN  IF last = 1 \/ last = Len(name) THEN << >>
                 ELSE SubSeq(name, last, Len(name))

\* FileProcessor.SKIP_PATTERNS
SKIP_PATTERNS ==
    << << "_", "_", "p", "y", "c", "a", "c", "h", "e", "_", "_" >>,
       << ".", "g", "i", "t" >>,
       << ".", "v", "e", "n", "v" >>,
       << "v", "e", "n", "v" >>,
       << "n", "o", "d", "e", "_", "m", "o", "d", "u", "l", "e", "s" >>,
       << ".", "p", "y", "t", "e", "s", "t", "_", "c", "a", "c", "h", "e" >>,
       << "b", "u", "i", "l", "d" >>,
       << "d", "i", "s", "t" >>,
       << ".", "i", "d", "e", "a" >>,
       << ".", "v", "s", "c", "o", "d", "e" >>,
       << "*", ".", "p", "y", "c" >>,
       << "*", ".", "p", "y", "o" >>,
       << "*", ".", "s", "o" >>,
       << "*", ".", "d", "y", "l", "i", "b" >>,
       << "*", ".", "d", "l", "l" >>,
       << ".", "D", "S", "_", "S", "t", "o", "r", "e" >>,
       << "T", "h", "u", "m", "b", "s", ".", "d", "b" >>,
       << "*", ".", "l", "o", "g" >>,
       << "*", ".", "t", "m", "p" >>,
       << "*", ".", "m", "i", "n", ".", "j", "s" >>,
       << "*", ".", "m", "i", "n", ".", "c", "s", "s" >>,
       << "p", "a", "c", "k", "a", "g", "e", "-", "l", "o", "c", "k", ".", "j", "s", "o", "n" >>,
       << "y", "a", "r", "n", ".", "l", "o", "c", "k" >> >>

\* FileProcessor.SOURCE_EXTENSIONS (the keys, then the language of each)
SOURCE_EXTENSIONS ==
    << << ".", "p", "y" >>,
       << ".", "j", "s" >>,
       << ".", "t", "s" >>,
       << ".", "j", "s", "x" >>,
       << ".", "t", "s", "x" >>,
       << ".", "j", "a", "v", "a" >>,
       << ".", "c", "p", "p" >>,
       << ".", "c" >>,
       << ".", "g", "o" >>,
       << ".", "r", "s" >>,
       << ".", "r", "b" >>,
       << ".", "p", "h", "p" >> >>

SourceLanguages ==
    << "python", "javascript", "typescript", "javascript", "typescript", "java", "cpp", "c", "go", "rust", "ruby", "php" >>

\* FileProcessor.CONFIG_FILES
CONFIG_FILES ==
    << << "b", "a", "c", "k", "e", "n", "d", "_", "r", "e", "q", "u", "i", "r", "e", "m", "e", "n", "t", "s", ".", "t", "x", "t" >>,
       << "p", "a", "c", "k", "a", "g", "e", ".", "j", "s", "o", "n" >>,
       << "p", "o", "m", ".", "x", "m", "l" >>,
       << "b", "u", "i", "l", "d", ".", "g", "r", "a", "d", "l", "e" >>,
       << "p", "y", "p", "r", "o", "j", "e", "c", "t", ".", "t", "o", "m", "l" >>,
       << "s", "e", "t", "u", "p", ".", "p", "y" >>,
       << "t", "s", "c", "o", "n", "f", "i", "g", ".", "j", "s", "o", "n" >>,
       << "w", "e", "b", "p", "a", "c", "k", ".", "c", "o", "n", "f", "i", "g", ".", "j", "s" >>,
       << ".", "e", "n", "v" >>,
       << ".", "e", "n", "v", ".", "e", "x", "a", "m", "p", "l", "e" >>,
       << "D", "o", "c", "k", "e", "r", "f", "i", "l", "e" >>,
       << "d", "o", "c", "k", "e", "r", "-", "c", "o", "m", "p", "o", "s", "e", ".", "y", "m", "l" >> >>

\* binary_extensions of FileProcessor._is_binary
BinaryExtensions ==
    << << ".", "e", "x", "e" >>,
       << ".", "d", "l", "l" >>,
       << ".", "s", "o" >>,
       << ".", "d", "y", "l", "i", "b" >>,
       << ".", "b", "i", "n" >>,
       << ".", "p", "d", "f" >>,
       << ".", "j", "p", "g" >>,
       << ".", "j", "p", "e", "g" >>,
       << ".", "p", "n", "g" >>,
       << ".", "g", "i", "f" >>,
       << ".", "i", "c", "o" >>,
       << ".", "s", "v", "g" >>,
       << ".", "z", "i", "p" >>,
       << ".", "t", "a", "r" >>,
       << ".", "g", "z" >>,
       << ".", "r", "a", "r" >>,
       << ".", "7", "z" >> >>

\* mimetypes.guess_type by extension: the main type, "none" when the
\* extension is not in the table
GuessType(file_path) ==
    LET ext == Lower(PathSuffix(file_path))
    IN  IF ext \in { << ".", "p", "y" >>,
                << ".", "t", "x", "t" >>,
                << ".", "m", "d" >> } THEN "text"
        ELSE IF ext \in { << ".", "p", "y", "c" >>,
                     << ".", "j", "s", "o", "n" >> } THEN "application"
        ELSE IF ext \in { << ".", "p", "n", "g" >> } THEN "image"
        ELSE "none"

\* FileProcessor._is_binary
IsBinary(file_path) ==
    LET mime_type == GuessType(file_path)
    IN  IF mime_type # "none" THEN mime_type # "text"
        ELSE \E k \in 1..Len(BinaryExtensions) : EndsWith(file_path, BinaryExtensions[k])

\* st_size > 1_000_000
SizeLimit == 1000000

\* FileProcessor._should_skip
ShouldSkip(file_path, size) ==
    LET file_path_lower == Lower(file_path)
    IN  \/ \E k \in 1..Len(SKIP_PATTERNS) :
              LET pattern == SKIP_PATTERNS[k]
              IN  IF StartsWith(pattern, << "*", "." >>)
                  THEN EndsWith(file_path, SubSeq(pattern, 2, Len(pattern)))
                  ELSE Contains(file_path_lower, pattern)
        \/ IsBinary(file_path)
        \/ size > SizeLimit

\* FileProcessor._get_skip_reason; << "matches_pattern_", pattern >> stands
\* for the string "matches_pattern_" + pattern
GetSkipReason(file_path, size) ==
    IF IsBinary(file_path) THEN << "binary" >>
    ELSE IF size > SizeLimit THEN << "too_large" >>
    ELSE LET lower == Lower(file_path)
             hits == {k \in 1..Len(SKIP_PATTERNS) : Contains(lower, SKIP_PATTERNS[k])}
         IN  IF hits # {}
             THEN << "matches_pattern_",
                     SKIP_PATTERNS[CHOOSE k \in hits : \A j \in hits : k <= j] >>
             ELSE << "unknown" >>

AnyIn(needles, s) == \E k \in 1..Len(needles) : Contains(s, needles[k])

\* FileProcessor._calculate_priority on the characters of the path
CalculatePathPriority(file_path) ==
    LET file_lower == Lower(file_path)
    IN  IF AnyIn(<< << "m", "a", "i", "n", ".", "p", "y" >>,
                 << "a", "p", "p", ".", "p", "y" >>,
                 << "i", "n", "d", "e", "x", ".", "j", "s" >>,
                 << "s", "e", "r", "v", "e", "r", ".", "j", "s" >> >>, file_path) THEN 10
        ELSE IF AnyIn(<< << "r", "o", "u", "t", "e" >>,
                      << "a", "p", "i" >>,
                      << "e", "n", "d", "p", "o", "i", "n", "t" >>,
                      << "c", "o", "n", "t", "r", "o", "l", "l", "e", "r" >> >>, file_lower) THEN 9
        ELSE IF AnyIn(<< << "m", "o", "d", "e", "l" >>,
                      << "s", "c", "h", "e", "m", "a" >>,
                      << "e", "n", "t", "i", "t", "y" >> >>, file_lower) THEN 8
        ELSE IF AnyIn(<< << "s", "e", "r", "v", "i", "c", "e" >>,
                      << "b", "u", "s", "i", "n", "e", "s", "s" >>,
                      << "l", "o", "g", "i", "c" >> >>, file_lower) THEN 7
        ELSE IF AnyIn(<< << "u", "t", "i", "l" >>,
                      << "h", "e", "l", "p", "e", "r" >>,
                      << "c", "o", "m", "m", "o", "n" >> >>, file_lower) THEN 6
        ELSE IF Contains(file_lower, << "t", "e", "s", "t" >>) THEN 3
        ELSE 5

\* FileProcessor._classify_file: the category and the metadata
ClassifyFile(file_path, size) ==
    LET ext == PathSuffix(file_path)
        base == [ file_path |-> file_path, file_name |-> PathName(file_path),
                  file_extension |-> ext, file_size |-> size,
                  file_type |-> "none", language |-> "none",
                  priority_level |-> 0, skip_reason |-> << "none" >> ]
    IN  IF ShouldSkip(file_path, size)
        THEN << "skip", [base EXCEPT !.skip_reason = GetSkipReason(file_path, size)] >>
        ELSE IF AnyIn(CONFIG_FILES, file_path)
        THEN << "config", [base EXCEPT !.file_type = "config"] >>
        ELSE IF \/ Contains(Lower(file_path), << "t", "e", "s", "t" >>)
                \/ Contains(Lower(file_path), << "s", "p", "e", "c" >>)
        THEN << "test", [base EXCEPT !.file_type = "test"] >>
        ELSE IF \/ EndsWith(file_path, << ".", "m", "d" >>)
                \/ EndsWith(file_path, << ".", "r", "s", "t" >>)
                \/ EndsWith(file_path, << ".", "t", "x", "t" >>)
                \/ Contains(file_path, << "R", "E", "A", "D", "M", "E" >>)
        THEN << "documentation", [base EXCEPT !.file_type = "documentation"] >>
        ELSE IF \E k \in 1..Len(SOURCE_EXTENSIONS) : SOURCE_EXTENSIONS[k] = ext
        THEN << "process",
                [base EXCEPT !.file_type = "source",
                             !.language = SourceLanguages[
                                 CHOOSE k \in 1..Len(SOURCE_EXTENSIONS) :
                                     SOURCE_EXTENSIONS[k] = ext],
                             !.priority_level = CalculatePathPriority(file_path)] >>
        ELSE << "skip", [base EXCEPT !.skip_reason = << "unknown_type" >>] >>

AppendResultOverwrite(results_so_far, category, metadata) ==
    [results_so_far EXCEPT ![category] = << metadata >>]

\* results[category].append(metadata)
AppendResult(results_so_far, category, metadata) ==
    [results_so_far EXCEPT ![category] = Append(@, metadata)]

\* FileProcessor.process_all_files: every file of the list, in order, is
\* classified and appended to its category
RECURSIVE ProcessAllFilesFold(_, _)
ProcessAllFilesFold(file_list, results_so_far) ==
    IF file_list = << >> THEN results_so_far
    ELSE LET classified == ClassifyFile(Head(file_list).path, Head(file_list).size)
         IN  ProcessAllFilesFold(
                 Tail(file_list),
                 AppendResult(results_so_far, classified[1], classified[2]))

EmptyResults == [c \in Categories |-> << >>]

\* _run_file_processing, "Handle files to skip": the FileMetadata row of
\* every file of processed_files["skip"]
SkipRows(processed_files) ==
    {[file_path |-> processed_files["skip"][k].file_path,
      should_skip |-> TRUE,
      skip_reason |-> processed_files["skip"][k].skip_reason] :
        k \in 1..Len(processed_files["skip"])}

\* the paths the classifier is run on
SamplePaths ==
    { << "a", "p", "p", ".", "p", "y" >>,
      << "n", "o", "d", "e", "_", "m", "o", "d", "u", "l", "e", "s", "/", "a", "p", "p", ".", "p", "y" >>,
      << "t", "e", "s", "t", "s", "/", "a", "p", "p", ".", "p", "y" >>,
      << "a", "p", "p", ".", "p", "y", "c" >>,
      << "d", "e", "b", "u", "g", ".", "l", "o", "g" >>,
      << "l", "o", "g", "o", ".", "p", "n", "g" >>,
      << "p", "a", "c", "k", "a", "g", "e", ".", "j", "s", "o", "n" >>,
      << "D", "o", "c", "k", "e", "r", "f", "i", "l", "e" >>,
      << "R", "E", "A", "D", "M", "E", ".", "m", "d" >>,
      << "n", "o", "t", "e", "s", ".", "t", "x", "t" >>,
      << "M", "a", "k", "e", "f", "i", "l", "e" >>,
      << "y", "a", "r", "n", ".", "l", "o", "c", "k" >>,
      << "a", "p", "i", "/", "r", "o", "u", "t", "e", "s", ".", "p", "y" >> }

\* --------------------------------------------- services/code_chunker.py
Whitespace == {" ", "\t", "\n", "\r", "\f"}

WordChars ==
    SeqRange(UpperCase) \cup SeqRange(LowerCase)
        \cup {"0", "1", "2", "3", "4", "5", "6", "7", "8", "9", "_"}

\* s.count(sub): the occurrences that do not overlap, from the left
RECURSIVE CountFrom(_, _, _)
CountFrom(s, sub, p) ==
    IF p + Len(sub) - 1 > Len(s) THEN 0
    ELSE IF SubSeq(s, p, p + Len(sub) - 1) = sub
    THEN 1 + CountFrom(s, sub, p + Len(sub))
    ELSE CountFrom(s, sub, p + 1)

Count(s, sub) == CountFrom(s, sub, 1)

\* sum(s.count(kw) for kw in needles)
RECURSIVE CountAll(_, _)
CountAll(s, needles) ==
    IF needles = << >> THEN 0
    ELSE Count(s, Head(needles)) + CountAll(s, Tail(needles))

\* s.split('\n')
RECURSIVE SplitLines(_)
SplitLines(s) ==
    IF \E i \in 1..Len(s) : s[i] = "\n"
    THEN LET first == CHOOSE i \in 1..Len(s) :
                         s[i] = "\n" /\ \A j \in 1..(i - 1) : s[j] # "\n"
         IN  << SubSeq(s, 1, first - 1) >>
                 \o SplitLines(SubSeq(s, first + 1, Len(s)))
    ELSE << s >>

\* '\n'.join(lines)
RECURSIVE JoinLines(_)
JoinLines(lines) ==
    IF lines = << >> THEN << >>
    ELSE IF Len(lines) = 1 THEN lines[1]
    ELSE lines[1] \o << "\n" >> \o JoinLines(Tail(lines))

\* lines[a:b] for 0 <= a and 0 <= b
Slice(lines, a, b) ==
    SubSeq(lines, a + 1, IF b <= Len(lines) THEN b ELSE Len(lines))

\* s.strip()
Strip(s) ==
    LET keep == {i \in 1..Len(s) : s[i] \notin Whitespace}
    IN  IF keep = {} THEN << >>
        ELSE SubSeq(s, CHOOSE i \in keep : \A j \in keep : i <= j,
                       CHOOSE i \in keep : \A j \in keep : j <= i)

\* keywords of CodeChunker._calculate_simple_complexity
SimpleKeywords ==
    << << "i", "f" >>,
       << "e", "l", "s", "e" >>,
       << "f", "o", "r" >>,
       << "w", "h", "i", "l", "e" >>,
       << "s", "w", "i", "t", "c", "h" >>,
       << "c", "a", "s", "e" >>,
       << "t", "r", "y" >>,
       << "c", "a", "t", "c", "h" >>,
       << "f", "i", "n", "a", "l", "l", "y" >>,
       << "&", "&" >>,
       << "|", "|" >> >>

\* CodeChunker._calculate_simple_complexity
CalculateSimpleComplexity(code) == CountAll(code, SimpleKeywords) + 1

\* CodeChunker._calculate_ast_complexity: node.decisions counts the If,
\* For, While, Try, ExceptHandler and With nodes under the node,
\* node.boolops lists len(values) of its BoolOp nodes
RECURSIVE SumExtraOperands(_)
SumExtraOperands(boolops) ==
    IF boolops = << >> THEN 0
    ELSE (Head(boolops) - 1) + SumExtraOperands(Tail(boolops))

CalculateAstComplexity(node) == 1 + node.decisions + SumExtraOperands(node.boolops)

\* the end of the match of \n\s*\n that begins at p (the last newline of
\* the whitespace that follows p), 0 when there is no match at p
SeparatorEnd(s, p) ==
    IF s[p] # "\n" THEN 0
    ELSE LET ends == {q \in (p + 1)..Len(s) :
                        /\ s[q] = "\n"
                        /\ \A k \in (p + 1)..q : s[k] \in Whitespace}
         IN  IF ends = {} THEN 0 ELSE CHOOSE q \in ends : \A r \in ends : r <= q

\* re.split(r'\n\s*\n', content): the block that begins at start, p being
\* the position the scan has reached
RECURSIVE SplitBlocks(_, _, _)
SplitBlocks(s, start, p) ==
    IF p > Len(s) THEN << SubSeq(s, start, Len(s)) >>
    ELSE IF SeparatorEnd(s, p) # 0
    THEN << SubSeq(s, start, p - 1) >>
             \o SplitBlocks(s, SeparatorEnd(s, p) + 1, SeparatorEnd(s, p) + 1)
    ELSE SplitBlocks(s, start, p + 1)

\* len(block.strip()) < 20
MinBlockChars == 20

\* the loop of CodeChunker._chunk_generic
RECURSIVE GenericChunks(_, _)
GenericChunks(blocks, current_line) ==
    IF blocks = << >> THEN << >>
    ELSE LET block == Head(blocks)
             lines_in_block == Count(block, << "\n" >>) + 1
         IN  IF Len(Strip(block)) < MinBlockChars
             THEN GenericChunks(Tail(blocks),
                                current_line + Count(block, << "\n" >>) + 2)
             ELSE << [ chunk_type |-> "block",
                       name |-> << "block_", current_line >>,
                       start_line |-> current_line,
                       end_line |-> current_line + lines_in_block - 1,
                       code |-> block,
                       complexity |-> CalculateSimpleComplexity(block) ] >>
                  \o GenericChunks(Tail(blocks), current_line + lines_in_block + 2)

\* CodeChunker._chunk_generic
ChunkGeneric(content) == GenericChunks(SplitBlocks(content, 1, 1), 1)

\* A regular expression is a sequence of elements: a literal, \s+, \s*,
\* \w+ or the lazy .*? ; an optional group or an alternation is written
\* out as variants, tried in the order the regex engine tries them.
\* MatchFrom is the end of every element of the match at p; it ends with
\* -1 when the pattern does not match at p.
Failed(ends) == ends # << >> /\ ends[Len(ends)] = -1

RECURSIVE RunEnd(_, _, _)
RunEnd(s, p, cls) ==
    IF p <= Len(s) /\ s[p] \in cls THEN RunEnd(s, p + 1, cls) ELSE p - 1

RECURSIVE MatchFrom(_, _, _)
RECURSIVE LazyFrom(_, _, _)
MatchFrom(s, p, pattern) ==
    IF pattern = << >> THEN << >>
    ELSE LET e == Head(pattern)
             q == RunEnd(s, p, IF e.kind = "word+" THEN WordChars ELSE Whitespace)
         IN  CASE e.kind = "lit" ->
                    IF /\ p + Len(e.s) - 1 <= Len(s)
                       /\ SubSeq(s, p, p + Len(e.s) - 1) = e.s
                    THEN << p + Len(e.s) - 1 >>
                             \o MatchFrom(s, p + Len(e.s), Tail(pattern))
                    ELSE << -1 >>
               [] e.kind \in {"ws+", "word+"} ->
                    IF q < p THEN << -1 >>
                    ELSE << q >> \o MatchFrom(s, q + 1, Tail(pattern))
               [] e.kind = "ws*" -> << q >> \o MatchFrom(s, q + 1, Tail(pattern))
               [] e.kind = "lazy" -> LazyFrom(s, p - 1, Tail(pattern))

\* .*? having taken the characters up to q: the rest is tried before one
\* more character, which is never a newline, is taken
LazyFrom(s, q, rest) ==
    IF ~Failed(MatchFrom(s, q + 1, rest)) THEN << q >> \o MatchFrom(s, q + 1, rest)
    ELSE IF q + 1 <= Len(s) /\ s[q + 1] # "\n" THEN LazyFrom(s, q + 1, rest)
    ELSE << -1 >>

\* pattern.finditer(content) from position p on: for every match its
\* start, its end and the \w+ group that is the unit's name
RECURSIVE FindIter(_, _, _)
FindIter(s, variants, p) ==
    IF p > Len(s) THEN << >>
    ELSE LET hits == {v \in 1..Len(variants) :
                         ~Failed(MatchFrom(s, p, variants[v].pattern))}
         IN  IF hits = {} THEN FindIter(s, variants, p + 1)
             ELSE LET v == CHOOSE h \in hits : \A g \in hits : h <= g
                      ends == MatchFrom(s, p, variants[v].pattern)
                      k == variants[v].name
                  IN  << [ start |-> p,
                           name |-> SubSeq(s, ends[k - 1] + 1, ends[k]) ] >>
                          \o FindIter(s, variants, ends[Len(ends)] + 1)

\* func_pattern of CodeChunker._chunk_javascript
FuncPattern ==
    << [ name |-> 5,
         pattern |-> << [kind |-> "lit", s |-> << "a", "s", "y", "n", "c" >>],
                      [kind |-> "ws+", s |-> << >>],
                      [kind |-> "lit", s |-> << "f", "u", "n", "c", "t", "i", "o", "n" >>],
                      [kind |-> "ws+", s |-> << >>],
                      [kind |-> "word+", s |-> << >>],
                      [kind |-> "ws*", s |-> << >>],
                      [kind |-> "lit", s |-> << "{", "{", "{", "{", "(" >>],
                      [kind |-> "lazy", s |-> << >>],
                      [kind |-> "lit", s |-> << ")", "}", "}", "}", "}" >>],
                      [kind |-> "ws*", s |-> << >>],
                      [kind |-> "lit", s |-> << "{" >>] >> ],
       [ name |-> 3,
         pattern |-> << [kind |-> "lit", s |-> << "f", "u", "n", "c", "t", "i", "o", "n" >>],
                      [kind |-> "ws+", s |-> << >>],
                      [kind |-> "word+", s |-> << >>],
                      [kind |-> "ws*", s |-> << >>],
                      [kind |-> "lit", s |-> << "{", "{", "{", "{", "(" >>],
                      [kind |-> "lazy", s |-> << >>],
                      [kind |-> "lit", s |-> << ")", "}", "}", "}", "}" >>],
                      [kind |-> "ws*", s |-> << >>],
                      [kind |-> "lit", s |-> << "{" >>] >> ] >>

\* arrow_pattern of CodeChunker._chunk_javascript
ArrowPattern ==
    << [ name |-> 3,
         pattern |-> << [kind |-> "lit", s |-> << "c", "o", "n", "s", "t" >>],
                      [kind |-> "ws+", s |-> << >>],
                      [kind |-> "word+", s |-> << >>],
                      [kind |-> "ws*", s |-> << >>],
                      [kind |-> "lit", s |-> << "=" >>],
                      [kind |-> "ws*", s |-> << >>],
                      [kind |-> "lit", s |-> << "a", "s", "y", "n", "c" >>],
                      [kind |-> "ws+", s |-> << >>],
                      [kind |-> "lit", s |-> << "{", "{", "{", "{", "(" >>],
                      [kind |-> "lazy", s |-> << >>],
                      [kind |-> "lit", s |-> << ")", "}", "}", "}", "}" >>],
                      [kind |-> "ws*", s |-> << >>],
                      [kind |-> "lit", s |-> << "=", ">" >>],
                      [kind |-> "ws*", s |-> << >>],
                      [kind |-> "lit", s |-> << "{" >>] >> ],
       [ name |-> 3,
         pattern |-> << [kind |-> "lit", s |-> << "c", "o", "n", "s", "t" >>],
                      [kind |-> "ws+", s |-> << >>],
                      [kind |-> "word+", s |-> << >>],
                      [kind |-> "ws*", s |-> << >>],
                      [kind |-> "lit", s |-> << "=" >>],
                      [kind |-> "ws*", s |-> << >>],
                      [kind |-> "lit", s |-> << "{", "{", "{", "{", "(" >>],
                      [kind |-> "lazy", s |-> << >>],
                      [kind |-> "lit", s |-> << ")", "}", "}", "}", "}" >>],
                      [kind |-> "ws*", s |-> << >>],
                      [kind |-> "lit", s |-> << "=", ">" >>],
                      [kind |-> "ws*", s |-> << >>],
                      [kind |-> "lit", s |-> << "{" >>] >> ],
       [ name |-> 3,
         pattern |-> << [kind |-> "lit", s |-> << "l", "e", "t" >>],
                      [kind |-> "ws+", s |-> << >>],
                      [kind |-> "word+", s |-> << >>],
                      [kind |-> "ws*", s |-> << >>],
                      [kind |-> "lit", s |-> << "=" >>],
                      [kind |-> "ws*", s |-> << >>],
                      [kind |-> "lit", s |-> << "a", "s", "y", "n", "c" >>],
                      [kind |-> "ws+", s |-> << >>],
                      [kind |-> "lit", s |-> << "{", "{", "{", "{", "(" >>],
                      [kind |-> "lazy", s |-> << >>],
                      [kind |-> "lit", s |-> << ")", "}", "}", "}", "}" >>],
                      [kind |-> "ws*", s |-> << >>],
                      [kind |-> "lit", s |-> << "=", ">" >>],
                      [kind |-> "ws*", s |-> << >>],
                      [kind |-> "lit", s |-> << "{" >>] >> ],
       [ name |-> 3,
         pattern |-> << [kind |-> "lit", s |-> << "l", "e", "t" >>],
                      [kind |-> "ws+", s |-> << >>],
                      [kind |-> "word+", s |-> << >>],
                      [kind |-> "ws*", s |-> << >>],
                      [kind |-> "lit", s |-> << "=" >>],
                      [kind |-> "ws*", s |-> << >>],
                      [kind |-> "lit", s |-> << "{", "{", "{", "{", "(" >>],
                      [kind |-> "lazy", s |-> << >>],
                      [kind |-> "lit", s |-> << ")", "}", "}", "}", "}" >>],
                      [kind |-> "ws*", s |-> << >>],
                      [kind |-> "lit", s |-> << "=", ">" >>],
                      [kind |-> "ws*", s |-> << >>],
                      [kind |-> "lit", s |-> << "{" >>] >> ],
       [ name |-> 3,
         pattern |-> << [kind |-> "lit", s |-> << "v", "a", "r" >>],
                      [kind |-> "ws+", s |-> << >>],
                      [kind |-> "word+", s |-> << >>],
                      [kind |-> "ws*", s |-> << >>],
                      [kind |-> "lit", s |-> << "=" >>],
                      [kind |-> "ws*", s |-> << >>],
                      [kind |-> "lit", s |-> << "a", "s", "y", "n", "c" >>],
                      [kind |-> "ws+", s |-> << >>],
                      [kind |-> "lit", s |-> << "{", "{", "{", "{", "(" >>],
                      [kind |-> "lazy", s |-> << >>],
                      [kind |-> "lit", s |-> << ")", "}", "}", "}", "}" >>],
                      [kind |-> "ws*", s |-> << >>],
                      [kind |-> "lit", s |-> << "=", ">" >>],
                      [kind |-> "ws*", s |-> << >>],
                      [kind |-> "lit", s |-> << "{" >>] >> ],
       [ name |-> 3,
         pattern |-> << [kind |-> "lit", s |-> << "v", "a", "r" >>],
                      [kind |-> "ws+", s |-> << >>],
                      [kind |-> "word+", s |-> << >>],
                      [kind |-> "ws*", s |-> << >>],
                      [kind |-> "lit", s |-> << "=" >>],
                      [kind |-> "ws*", s |-> << >>],
                      [kind |-> "lit", s |-> << "{", "{", "{", "{", "(" >>],
                      [kind |-> "lazy", s |-> << >>],
                      [kind |-> "lit", s |-> << ")", "}", "}", "}", "}" >>],
                      [kind |-> "ws*", s |-> << >>],
                      [kind |-> "lit", s |-> << "=", ">" >>],
                      [kind |-> "ws*", s |-> << >>],
                      [kind |-> "lit", s |-> << "{" >>] >> ] >>

\* class_pattern of CodeChunker._chunk_javascript
ClassPattern ==
    << [ name |-> 3,
         pattern |-> << [kind |-> "lit", s |-> << "c", "l", "a", "s", "s" >>],
                      [kind |-> "ws+", s |-> << >>],
                      [kind |-> "word+", s |-> << >>],
                      [kind |-> "ws+", s |-> << >>],
                      [kind |-> "lit", s |-> << "e", "x", "t", "e", "n", "d", "s" >>],
                      [kind |-> "ws+", s |-> << >>],
                      [kind |-> "word+", s |-> << >>],
                      [kind |-> "ws*", s |-> << >>],
                      [kind |-> "lit", s |-> << "{" >>] >> ],
       [ name |-> 3,
         pattern |-> << [kind |-> "lit", s |-> << "c", "l", "a", "s", "s" >>],
                      [kind |-> "ws+", s |-> << >>],
                      [kind |-> "word+", s |-> << >>],
                      [kind |-> "ws*", s |-> << >>],
                      [kind |-> "lit", s |-> << "{" >>] >> ] >>

\* the loop of CodeChunker._find_closing_brace, at character j of the line
\* of index i (from 0); -1 when the lines end before the braces balance
RECURSIVE ScanBraces(_, _, _, _, _)
ScanBraces(lines, i, j, brace_count, started) ==
    IF i >= Len(lines) THEN -1
    ELSE IF j > Len(lines[i + 1]) THEN ScanBraces(lines, i + 1, 1, brace_count, started)
    ELSE IF lines[i + 1][j] = "{" THEN ScanBraces(lines, i, j + 1, brace_count + 1, TRUE)
    ELSE IF lines[i + 1][j] = "}"
    THEN IF started /\ brace_count - 1 = 0 THEN i
         ELSE ScanBraces(lines, i, j + 1, brace_count - 1, started)
    ELSE ScanBraces(lines, i, j + 1, brace_count, started)

\* the fallback of CodeChunker._find_closing_brace
FallbackSpan == 50

\* CodeChunker._find_closing_brace
FindClosingBrace(lines, start_line) ==
    IF ScanBraces(lines, start_line, 1, 0, FALSE) # -1
    THEN ScanBraces(lines, start_line, 1, 0, FALSE)
    ELSE IF start_line + FallbackSpan <= Len(lines) - 1
    THEN start_line + FallbackSpan
    ELSE Len(lines) - 1

\* CodeChunker._extract_js_function, _extract_js_arrow_function and
\* _extract_js_class: the chunk of one match
ExtractJs(match, lines, content, chunk_type) ==
    LET start_line == Count(SubSeq(content, 1, match.start - 1), << "\n" >>) + 1
        end_line == FindClosingBrace(lines, start_line - 1)
        code == JoinLines(Slice(lines, start_line - 1, end_line + 1))
    IN  [ chunk_type |-> chunk_type,
          name |-> match.name,
          start_line |-> start_line,
          end_line |-> end_line,
          code |-> code,
          complexity |-> CalculateSimpleComplexity(code) ]

\* CodeChunker._chunk_javascript
ChunkJavascript(content) ==
    LET lines == SplitLines(content)
        funcs == FindIter(content, FuncPattern, 1)
        arrows == FindIter(content, ArrowPattern, 1)
        classes == FindIter(content, ClassPattern, 1)
    IN  [i \in 1..Len(funcs) |-> ExtractJs(funcs[i], lines, content, "function")]
            \o [i \in 1..Len(arrows) |-> ExtractJs(arrows[i], lines, content, "function")]
            \o [i \in 1..Len(classes) |-> ExtractJs(classes[i], lines, content, "class")]

\* CodeChunker._extract_python_function and _extract_python_class (and
\* _extract_python_method, which renames the type of a function chunk)
ExtractPython(node, content, chunk_type) ==
    LET start_line == node.lineno
        end_line == IF node.end_lineno # 0 THEN node.end_lineno ELSE start_line
    IN  [ chunk_type |-> chunk_type,
          name |-> node.name,
          start_line |-> start_line,
          end_line |-> end_line,
          code |-> JoinLines(Slice(SplitLines(content), start_line - 1, end_line)),
          complexity |-> CalculateAstComplexity(node) ]

\* CodeChunker._extract_python_method: the function chunk of the node,
\* retyped and given the name of its class
ExtractPythonMethod(node, class_name, content) ==
    LET chunk == ExtractPython(node, content, "function")
    IN  [ chunk_type |-> "method",
          name |-> chunk.name,
          start_line |-> chunk.start_line,
          end_line |-> chunk.end_line,
          code |-> chunk.code,
          complexity |-> chunk.complexity,
          parent_class |-> class_name ]

\* the loop of CodeChunker._chunk_python over ast.walk(tree)
RECURSIVE PythonChunks(_, _)
PythonChunks(nodes, content) ==
    IF nodes = << >> THEN << >>
    ELSE LET node == Head(nodes)
         IN  (IF node.type = "FunctionDef"
              THEN << ExtractPython(node, content, "function") >>
              ELSE << ExtractPython(node, content, "class") >>
                       \o [k \in 1..Len(node.methods) |->
                              ExtractPythonMethod(node.methods[k], node.name, content)])
                 \o PythonChunks(Tail(nodes), content)

ChunkPythonFallbackPattern(content, parse) ==
    IF parse.ok THEN PythonChunks(parse.nodes, content) ELSE ChunkJavascript(content)

\* CodeChunker._chunk_python; parse is what ast.parse(content) gives
ChunkPython(content, parse) ==
    IF parse.ok THEN PythonChunks(parse.nodes, content) ELSE ChunkGeneric(content)

\* CodeChunker.chunk_file
ChunkFileContent(file) ==
    IF ~file.readable THEN << >>
    ELSE IF file.language = "python" THEN ChunkPython(file.content, file.parse)
    ELSE IF file.language \in {"javascript", "typescript"}
    THEN ChunkJavascript(file.content)
    ELSE ChunkGeneric(file.content)

\* ------------------------------------------- services/file_processor.py
\* decision_keywords of FileProcessor._calculate_complexity
DecisionKeywords ==
    << << "i", "f", " " >>,
       << "e", "l", "i", "f", " " >>,
       << "e", "l", "s", "e", ":" >>,
       << "f", "o", "r", " " >>,
       << "w", "h", "i", "l", "e", " " >>,
       << "t", "r", "y", ":" >>,
       << "e", "x", "c", "e", "p", "t", ":" >> >>

\* FileProcessor._calculate_complexity: the float complexity / max(lines,
\* 1) * 10 as the fraction num / den
CalculateComplexity(content) ==
    LET complexity == CountAll(content, DecisionKeywords)
        all_lines == SplitLines(content)
        lines == Cardinality({i \in 1..Len(all_lines) : Strip(all_lines[i]) # << >>})
    IN  [num |-> complexity * 10, den |-> IF lines > 1 THEN lines ELSE 1]

\* FileProcessor._extract_python_imports
ExtractPythonImports(content) ==
    LET all_lines == SplitLines(content)
        stripped == [i \in 1..Len(all_lines) |-> Strip(all_lines[i])]
        second(line) ==
            LET first == RunEnd(line, RunEnd(line, 1, WordChars) + 1, Whitespace) + 1
                last == CHOOSE q \in (first - 1)..Len(line) :
                            /\ \A k \in first..q : line[k] \notin Whitespace \cup {"."}
                            /\ q = Len(line) \/ line[q + 1] \in Whitespace \cup {"."}
            IN  SubSeq(line, first, last)
    IN  {second(stripped[i]) :
            i \in {i \in 1..Len(all_lines) :
                      \/ StartsWith(stripped[i], << "i", "m", "p", "o", "r", "t", " " >>)
                      \/ StartsWith(stripped[i], << "f", "r", "o", "m", " " >>)}}

\* FileProcessor.extract_file_metadata
ExtractFileMetadata(file) ==
    IF ~file.readable
    THEN [ lines_of_code |-> 0, has_classes |-> FALSE, has_functions |-> FALSE,
           imports |-> {}, complexity_score |-> [num |-> 0, den |-> 1] ]
    ELSE LET all_lines == SplitLines(file.content)
             is_code(line) ==
                 /\ Strip(line) # << >>
                 /\ ~StartsWith(Strip(line), << "#" >>)
                 /\ ~StartsWith(Strip(line), << "/", "/" >>)
                 /\ ~StartsWith(Strip(line), << "/", "*" >>)
         IN  [ lines_of_code |->
                   Cardinality({i \in 1..Len(all_lines) : is_code(all_lines[i])}),
               has_classes |-> Contains(file.content, << "c", "l", "a", "s", "s", " " >>),
               has_functions |->
                   AnyIn(<< << "d", "e", "f", " " >>,
                           << "f", "u", "n", "c", "t", "i", "o", "n", " " >>,
                           << "f", "u", "n", "c", " " >>,
                           << "f", "n", " " >> >>,
                         file.content),
               imports |-> IF EndsWith(file.file_path, << ".", "p", "y" >>)
                           THEN ExtractPythonImports(file.content) ELSE {},
               complexity_score |-> CalculateComplexity(file.content) ]

\* -------------------------------------------- services/semantic_search.py
\* An embedding is one integer; IndexFlatL2 measures the squared distance
\* (a - b) * (a - b).
MaxChunks == 2
MaxEmbed == 1
MaxTopK == 2

\* the distance IndexFlatL2.search reports where it has no vector left
\* (the largest float): above every distance between two embeddings
PadDistance == (MaxEmbed + 1) * (MaxEmbed + 1)

\* the vectors of the index by increasing distance to x; tie lists the
\* positions in the order the library reports equal distances
RECURSIVE NearestFirst(_, _, _, _)
NearestFirst(vectors, x, left, tie) ==
    IF left = {} THEN << >>
    ELSE LET at(i) == CHOOSE k \in 1..Len(tie) : tie[k] = i
             distance(i) == (vectors[i + 1] - x) * (vectors[i + 1] - x)
             best == CHOOSE i \in left : \A j \in left :
                        \/ distance(i) < distance(j)
                        \/ distance(i) = distance(j) /\ at(i) <= at(j)
         IN  << [distance |-> distance(best), idx |-> best] >>
                 \o NearestFirst(vectors, x, left \ {best}, tie)

\* faiss IndexFlatL2.search(x, k): always k entries, positions from 0,
\* the entries beyond the vectors of the index being (PadDistance, -1)
FaissSearch(vectors, x, k, tie) ==
    LET hits == NearestFirst(vectors, x, 0..(Len(vectors) - 1), tie)
    IN  [i \in 1..k |-> IF i <= Len(hits) THEN hits[i]
                        ELSE [distance |-> PadDistance, idx |-> -1]]

\* chunk_ids[i] of Python: a negative i counts from the end
ChunkIdAt(chunk_ids, i) ==
    IF i < 0 THEN chunk_ids[Len(chunk_ids) + 1 + i] ELSE chunk_ids[i + 1]

SearchRankFromZero(self, query_embedding, top_k, tie) ==
    IF ~self.loaded THEN << >>
    ELSE LET found == FaissSearch(self.vectors, query_embedding, top_k, tie)
             ranked == [i \in 1..top_k |->
                           [distance |-> found[i].distance, idx |-> found[i].idx,
                            rank |-> i - 1]]
             kept == SelectSeq(ranked, LAMBDA r : r.idx < Len(self.chunk_ids))
         IN  [i \in 1..Len(kept) |->
                 [ chunk_id |-> ChunkIdAt(self.chunk_ids, kept[i].idx),
                   similarity_score |-> [num |-> 1, den |-> 1 + kept[i].distance],
                   rank |-> kept[i].rank ]]

\* SemanticSearch.search; query_embedding is model.encode([query]), and
\* the float 1 / (1 + distance) is the fraction num / den
Search(self, query_embedding, top_k, tie) ==
    IF ~self.loaded THEN << >>
    ELSE LET found == FaissSearch(self.vectors, query_embedding, top_k, tie)
             ranked == [i \in 1..top_k |->
                           [distance |-> found[i].distance, idx |-> found[i].idx,
                            rank |-> i]]
             kept == SelectSeq(ranked, LAMBDA r : r.idx < Len(self.chunk_ids))
         IN  [i \in 1..Len(kept) |->
                 [ chunk_id |-> ChunkIdAt(self.chunk_ids, kept[i].idx),
                   similarity_score |-> [num |-> 1, den |-> 1 + kept[i].distance],
                   rank |-> kept[i].rank ]]

\* SemanticSearch.get_similar_chunks
GetSimilarChunks(self, chunk_id, top_k, tie) ==
    IF chunk_id \notin SeqRange(self.chunk_ids) THEN << >>
    ELSE LET position == (CHOOSE k \in 1..Len(self.chunk_ids) :
                             /\ self.chunk_ids[k] = chunk_id
                             /\ \A j \in 1..(k - 1) : self.chunk_ids[j] # chunk_id) - 1
             embedding == self.vectors[position + 1]
             found == FaissSearch(self.vectors, embedding, top_k + 1, tie)
             indices == [i \in 1..Len(found) |-> found[i].idx]
             kept == SelectSeq(Tail(indices), LAMBDA i : i < Len(self.chunk_ids))
         IN  [i \in 1..Len(kept) |-> ChunkIdAt(self.chunk_ids, kept[i])]

\* what the SemanticSearch instances are run on: the chunks with their
\* embeddings, a query embedding, top_k, a chunk id to find the chunks
\* similar to (0: an id that is not in the index), the order of ties (a
\* permutation of the positions 0..n-1)
SearchInputs ==
    UNION {[ chunk_ids : {[i \in 1..n |-> i]},
             embeddings : [1..n -> 0..MaxEmbed],
             query : 0..MaxEmbed,
             top_k : 1..MaxTopK,
             chunk_id : 0..n,
             tie : {t \in [1..n -> 0..(n - 1)] :
                       \A i, j \in 1..n : i # j => t[i] # t[j]} ] :
           n \in 1..MaxChunks}

\* ----------------------------------------------------- sample sources
MaxLines == 3

\* the lines the JavaScript and other-language files are made of
SampleLines ==
    { << >>,
      << "t", "o", "t", "a", "l", " ", "=", " ", "c", "o", "m", "p", "u", "t", "e", "(", "i", "t", "e", "m", "s", ")" >>,
      << "c", "l", "a", "s", "s", " ", "C", " ", "{" >>,
      << "}" >>,
      << "c", "l", "a", "s", "s", " ", "C", " ", "{", " ", "}" >>,
      << "i", "f", " ", "(", "a", " ", "&", "&", " ", "b", ")", " ", "{" >> }

\* ast.parse raised SyntaxError, or was not called
NoParse == [ok |-> FALSE, nodes |-> << >>]

\* Python files, each with what ast.parse makes of it: the FunctionDef and
\* ClassDef nodes in the order of ast.walk
PythonSamples ==
    { [ content |->
          << "d", "e", "f", " ", "f", "(", ")", ":", "\n", " ", " ", " ", " ", "p", "a", "s", "s" >>,
        parse |-> [ ok |-> TRUE,
          nodes |-> << [ type |-> "FunctionDef", name |-> << "f" >>, lineno |-> 1, end_lineno |-> 2,
              decisions |-> 0, boolops |-> <<  >>,
              methods |-> <<  >> ] >> ] ],
      [ content |->
          << "i", "m", "p", "o", "r", "t", " ", "o", "s", ".", "p", "a", "t", "h", "\n", "\n", "d", "e", "f", " ", "g", "(", "a", ",", " ", "b", ")", ":", "\n", " ", " ", " ", " ", "i", "f", " ", "a", " ", "a", "n", "d", " ", "b", ":", "\n", " ", " ", " ", " ", " ", " ", " ", " ", "r", "e", "t", "u", "r", "n", " ", "1", "\n", " ", " ", " ", " ", "f", "o", "r", " ", "i", " ", "i", "n", " ", "a", ":", "\n", " ", " ", " ", " ", " ", " ", " ", " ", "p", "a", "s", "s", "\n", " ", " ", " ", " ", "r", "e", "t", "u", "r", "n", " ", "0" >>,
        parse |-> [ ok |-> TRUE,
          nodes |-> << [ type |-> "FunctionDef", name |-> << "g" >>, lineno |-> 3, end_lineno |-> 8,
              decisions |-> 2, boolops |-> << 2 >>,
              methods |-> <<  >> ] >> ] ],
      [ content |->
          << "c", "l", "a", "s", "s", " ", "K", ":", "\n", " ", " ", " ", " ", "d", "e", "f", " ", "m", "(", "s", "e", "l", "f", ")", ":", "\n", " ", " ", " ", " ", " ", " ", " ", " ", "p", "a", "s", "s" >>,
        parse |-> [ ok |-> TRUE,
          nodes |-> << [ type |-> "ClassDef", name |-> << "K" >>, lineno |-> 1, end_lineno |-> 3,
              decisions |-> 0, boolops |-> <<  >>,
              methods |-> << [ type |-> "FunctionDef", name |-> << "m" >>, lineno |-> 2, end_lineno |-> 3,
              decisions |-> 0, boolops |-> <<  >>,
              methods |-> <<  >> ] >> ],
            [ type |-> "FunctionDef", name |-> << "m" >>, lineno |-> 2, end_lineno |-> 3,
              decisions |-> 0, boolops |-> <<  >>,
              methods |-> <<  >> ] >> ] ],
      [ content |->
          << "d", "e", "f", " ", "b", "r", "o", "k", "e", "n", "(", ":", "\n", " ", " ", " ", " ", "r", "e", "t", "u", "r", "n", " ", "c", "o", "m", "p", "u", "t", "e", "(", "i", "t", "e", "m", "s", ")", "\n", "\n", "v", "a", "l", "u", "e", " ", "=", " ", "c", "o", "m", "p", "u", "t", "e", "(", "i", "t", "e", "m", "s", ")", " ", "+" >>,
        parse |-> NoParse ],
      [ content |->
          << >>,
        parse |-> [ ok |-> TRUE,
          nodes |-> <<  >> ] ],
      [ content |->
          << "x", " ", "=", " ", "1" >>,
        parse |-> [ ok |-> TRUE,
          nodes |-> <<  >> ] ],
      [ content |->
          << "c", "l", "a", "s", "s", " ", "P", ":", "\n", " ", " ", " ", " ", "d", "e", "f", " ", "a", "(", "s", "e", "l", "f", ")", ":", "\n", " ", " ", " ", " ", " ", " ", " ", " ", "p", "a", "s", "s", "\n", " ", " ", " ", " ", "d", "e", "f", " ", "b", "(", "s", "e", "l", "f", ")", ":", "\n", " ", " ", " ", " ", " ", " ", " ", " ", "p", "a", "s", "s", "\n", "\n", "d", "e", "f", " ", "h", "(", ")", ":", "\n", " ", " ", " ", " ", "p", "a", "s", "s" >>,
        parse |-> [ ok |-> TRUE,
          nodes |-> << [ type |-> "ClassDef", name |-> << "P" >>, lineno |-> 1, end_lineno |-> 5,
              decisions |-> 0, boolops |-> <<  >>,
              methods |-> << [ type |-> "FunctionDef", name |-> << "a" >>, lineno |-> 2, end_lineno |-> 3,
              decisions |-> 0, boolops |-> <<  >>,
              methods |-> <<  >> ], [ type |-> "FunctionDef", name |-> << "b" >>, lineno |-> 4, end_lineno |-> 5,
              decisions |-> 0, boolops |-> <<  >>,
              methods |-> <<  >> ] >> ],
            [ type |-> "FunctionDef", name |-> << "h" >>, lineno |-> 7, end_lineno |-> 8,
              decisions |-> 0, boolops |-> <<  >>,
              methods |-> <<  >> ],
            [ type |-> "FunctionDef", name |-> << "a" >>, lineno |-> 2, end_lineno |-> 3,
              decisions |-> 0, boolops |-> <<  >>,
              methods |-> <<  >> ],
            [ type |-> "FunctionDef", name |-> << "b" >>, lineno |-> 4, end_lineno |-> 5,
              decisions |-> 0, boolops |-> <<  >>,
              methods |-> <<  >> ] >> ] ] }

\* the files chunk_file and extract_file_metadata are run on: of up to
\* MaxLines sample lines, or a Python sample; a file that cannot be read
\* has no content
SourceFiles ==
    LET Contents ==
            UNION {{JoinLines(l) : l \in [1..n -> SampleLines]} : n \in 1..MaxLines}
    IN
    {[ file_path |-> << "a", "p", "p", ".", "j", "s" >>, language |-> "javascript",
       content |-> c, parse |-> NoParse, readable |-> TRUE ] : c \in Contents}
    \cup {[ file_path |-> << "A", "p", "p", ".", "j", "a", "v", "a" >>, language |-> "java",
            content |-> c, parse |-> NoParse, readable |-> TRUE ] : c \in Contents}
    \cup {[ file_path |-> << "a", "p", "p", ".", "p", "y" >>, language |-> "python",
            content |-> s.content, parse |-> s.parse, readable |-> TRUE ] :
              s \in PythonSamples}
    \cup {[ file_path |-> << "a", "p", "p", ".", "p", "y" >>, language |-> "python",
            content |-> << >>, parse |-> NoParse, readable |-> FALSE ]}

\* --------------------------------------------- services/repo_analyser.py
\* RepositoryAnalyzer.PROJECT_PATTERNS, in the order of the dict
PROJECT_PATTERNS ==
    << [ name |-> "fastapi",
         files |-> << << "m", "a", "i", "n", ".", "p", "y" >>,
           << "a", "p", "p", ".", "p", "y" >> >>,
         imports |-> << << "f", "r", "o", "m", " ", "f", "a", "s", "t", "a", "p", "i", " ", "i", "m", "p", "o", "r", "t" >>,
           << "i", "m", "p", "o", "r", "t", " ", "f", "a", "s", "t", "a", "p", "i" >> >>,
         configs |-> << << "b", "a", "c", "k", "e", "n", "d", "_", "r", "e", "q", "u", "i", "r", "e", "m", "e", "n", "t", "s", ".", "t", "x", "t" >>,
           << "p", "y", "p", "r", "o", "j", "e", "c", "t", ".", "t", "o", "m", "l" >> >>,
         indicators |-> << << "@", "a", "p", "p", ".", "g", "e", "t" >>,
           << "@", "a", "p", "p", ".", "p", "o", "s", "t" >>,
           << "F", "a", "s", "t", "A", "P", "I", "(" >> >> ],
       [ name |-> "flask",
         files |-> << << "a", "p", "p", ".", "p", "y" >>,
           << "w", "s", "g", "i", ".", "p", "y" >> >>,
         imports |-> << << "f", "r", "o", "m", " ", "f", "l", "a", "s", "k", " ", "i", "m", "p", "o", "r", "t" >>,
           << "i", "m", "p", "o", "r", "t", " ", "f", "l", "a", "s", "k" >> >>,
         configs |-> << << "b", "a", "c", "k", "e", "n", "d", "_", "r", "e", "q", "u", "i", "r", "e", "m", "e", "n", "t", "s", ".", "t", "x", "t" >> >>,
         indicators |-> << << "@", "a", "p", "p", ".", "r", "o", "u", "t", "e" >>,
           << "F", "l", "a", "s", "k", "(", "_", "_", "n", "a", "m", "e", "_", "_", ")" >> >> ],
       [ name |-> "django",
         files |-> << << "m", "a", "n", "a", "g", "e", ".", "p", "y" >>,
           << "w", "s", "g", "i", ".", "p", "y" >> >>,
         imports |-> << << "d", "j", "a", "n", "g", "o" >> >>,
         configs |-> << << "b", "a", "c", "k", "e", "n", "d", "_", "r", "e", "q", "u", "i", "r", "e", "m", "e", "n", "t", "s", ".", "t", "x", "t" >>,
           << "s", "e", "t", "t", "i", "n", "g", "s", ".", "p", "y" >> >>,
         indicators |-> << << "I", "N", "S", "T", "A", "L", "L", "E", "D", "_", "A", "P", "P", "S" >>,
           << "D", "A", "T", "A", "B", "A", "S", "E", "S" >> >> ],
       [ name |-> "react",
         files |-> << << "p", "a", "c", "k", "a", "g", "e", ".", "j", "s", "o", "n" >>,
           << "s", "r", "c", "/", "A", "p", "p", ".", "j", "s" >>,
           << "s", "r", "c", "/", "i", "n", "d", "e", "x", ".", "j", "s" >> >>,
         imports |-> << << "i", "m", "p", "o", "r", "t", " ", "R", "e", "a", "c", "t" >>,
           << "f", "r", "o", "m", " ", "'", "r", "e", "a", "c", "t", "'" >> >>,
         configs |-> << << "p", "a", "c", "k", "a", "g", "e", ".", "j", "s", "o", "n" >>,
           << "t", "s", "c", "o", "n", "f", "i", "g", ".", "j", "s", "o", "n" >> >>,
         indicators |-> << << "R", "e", "a", "c", "t", ".", "C", "o", "m", "p", "o", "n", "e", "n", "t" >>,
           << "u", "s", "e", "S", "t", "a", "t", "e" >>,
           << "u", "s", "e", "E", "f", "f", "e", "c", "t" >> >> ],
       [ name |-> "express",
         files |-> << << "p", "a", "c", "k", "a", "g", "e", ".", "j", "s", "o", "n" >>,
           << "s", "e", "r", "v", "e", "r", ".", "j", "s" >>,
           << "a", "p", "p", ".", "j", "s" >> >>,
         imports |-> << << "e", "x", "p", "r", "e", "s", "s" >>,
           << "c", "o", "n", "s", "t", " ", "e", "x", "p", "r", "e", "s", "s" >> >>,
         configs |-> << << "p", "a", "c", "k", "a", "g", "e", ".", "j", "s", "o", "n" >> >>,
         indicators |-> << << "a", "p", "p", ".", "l", "i", "s", "t", "e", "n" >>,
           << "e", "x", "p", "r", "e", "s", "s", "(", ")" >> >> ],
       [ name |-> "spring_boot",
         files |-> << << "p", "o", "m", ".", "x", "m", "l" >>,
           << "b", "u", "i", "l", "d", ".", "g", "r", "a", "d", "l", "e" >> >>,
         imports |-> << << "o", "r", "g", ".", "s", "p", "r", "i", "n", "g", "f", "r", "a", "m", "e", "w", "o", "r", "k" >> >>,
         configs |-> << << "a", "p", "p", "l", "i", "c", "a", "t", "i", "o", "n", ".", "p", "r", "o", "p", "e", "r", "t", "i", "e", "s" >>,
           << "a", "p", "p", "l", "i", "c", "a", "t", "i", "o", "n", ".", "y", "m", "l" >> >>,
         indicators |-> << << "@", "S", "p", "r", "i", "n", "g", "B", "o", "o", "t", "A", "p", "p", "l", "i", "c", "a", "t", "i", "o", "n" >>,
           << "@", "R", "e", "s", "t", "C", "o", "n", "t", "r", "o", "l", "l", "e", "r" >> >> ] >>

\* the suffixes _check_file_contents reads
ContentSuffixes ==
    { << ".", "p", "y" >>,
      << ".", "j", "s" >>,
      << ".", "j", "a", "v", "a" >>,
      << ".", "t", "s" >>,
      << ".", "j", "s", "x" >>,
      << ".", "t", "s", "x" >> }

\* _check_file_contents: the first files of the list it looks at, and the
\* characters it reads of each
FilesChecked == 10

ReadLimit == 5000

\* RepositoryAnalyzer._file_exists over files_list
FileExists(files_list, pattern) ==
    \E i \in 1..Len(files_list) :
        EndsWith(files_list[i].path, pattern) \/ Contains(files_list[i].path, pattern)

\* RepositoryAnalyzer._check_file_contents: min(score / max(files_checked,
\* 1), 5.0) as the fraction num / den; a file that cannot be opened is not
\* counted
CheckFileContents(files_list, patterns) ==
    LET looked == Slice(files_list, 0, FilesChecked)
        read == SelectSeq(looked, LAMBDA f :
                    PathSuffix(f.path) \in ContentSuffixes /\ f.readable)
        found(f, subs) ==
            Cardinality({k \in 1..Len(subs) :
                            Contains(Slice(f.content, 0, ReadLimit), subs[k])})
        matches == [i \in 1..Len(read) |->
                       found(read[i], patterns.imports)
                           + found(read[i], patterns.indicators)]
        score == SumOver(matches, 1..Len(read))
        files_checked == IF Len(read) > 1 THEN Len(read) ELSE 1
    IN  IF score >= 5 * files_checked THEN [num |-> 5, den |-> 1]
        ELSE [num |-> score, den |-> files_checked]

\* the score / max_score _detect_project_type gives a signature, as the
\* fraction num / den, with max_score
SignatureScore(files_list, patterns) ==
    LET hits(subs) == Cardinality({k \in 1..Len(subs) : FileExists(files_list, subs[k])})
        max_score == 3 * Len(patterns.files) + 2 * Len(patterns.configs) + 5
        content_score == CheckFileContents(files_list, patterns)
        score == 3 * hits(patterns.files) + 2 * hits(patterns.configs)
    IN  [ name |-> patterns.name,
          max_score |-> max_score,
          num |-> score * content_score.den + content_score.num,
          den |-> content_score.den * max_score ]

\* the scores dict of _detect_project_type, in the order of PROJECT_PATTERNS:
\* the signatures from the i-th on whose max_score is positive
RECURSIVE SignatureScores(_, _)
SignatureScores(files_list, i) ==
    IF i > Len(PROJECT_PATTERNS) THEN << >>
    ELSE SelectSeq(<< SignatureScore(files_list, PROJECT_PATTERNS[i]) >>,
                   LAMBDA s : s.max_score > 0)
             \o SignatureScores(files_list, i + 1)

\* RepositoryAnalyzer._detect_project_type: max() keeps the first of the
\* signatures of the highest score. The scores are computed once and then
\* compared.
DetectProjectType(files_list) ==
    LET MaxOf(scores) ==
            IF scores = << >> THEN << "unknown", [num |-> 0, den |-> 1] >>
            ELSE LET best == CHOOSE i \in 1..Len(scores) :
                         /\ \A j \in 1..Len(scores) :
                               scores[i].num * scores[j].den >= scores[j].num * scores[i].den
                         /\ \A j \in 1..(i - 1) :
                               scores[j].num * scores[i].den < scores[i].num * scores[j].den
                 IN  << scores[best].name,
                        [num |-> scores[best].num, den |-> scores[best].den] >>
    IN  CHOOSE best_type \in {MaxOf(scores) : scores \in {SignatureScores(files_list, 1)}} : TRUE

\* the files a scanned repository is made of: path, content, and whether
\* the file can be opened and decoded
RepoFiles ==
    { [ path |-> << "m", "a", "i", "n", ".", "p", "y" >>,
        content |-> << "f", "r", "o", "m", " ", "f", "a", "s", "t", "a", "p", "i", " ", "i", "m", "p", "o", "r", "t", " ", "F", "a", "s", "t", "A", "P", "I", "\n", "a", "p", "p", " ", "=", " ", "F", "a", "s", "t", "A", "P", "I", "(", ")", "\n", "@", "a", "p", "p", ".", "g", "e", "t", "(", "'", "/", "'", ")" >>,
        readable |-> TRUE ],
      [ path |-> << "a", "p", "p", ".", "p", "y" >>,
        content |-> << "f", "r", "o", "m", " ", "f", "l", "a", "s", "k", " ", "i", "m", "p", "o", "r", "t", " ", "F", "l", "a", "s", "k", "\n", "a", "p", "p", " ", "=", " ", "F", "l", "a", "s", "k", "(", "_", "_", "n", "a", "m", "e", "_", "_", ")" >>,
        readable |-> TRUE ],
      [ path |-> << "u", "t", "i", "l", ".", "p", "y" >>,
        content |-> << "i", "m", "p", "o", "r", "t", " ", "o", "s" >>,
        readable |-> TRUE ],
      [ path |-> << "d", "a", "t", "a", ".", "p", "y" >>,
        content |-> << >>,
        readable |-> FALSE ],
      [ path |-> << "p", "a", "c", "k", "a", "g", "e", ".", "j", "s", "o", "n" >>,
        content |-> << "{", "}" >>,
        readable |-> TRUE ],
      [ path |-> << "s", "e", "r", "v", "e", "r", ".", "j", "s" >>,
        content |-> << "c", "o", "n", "s", "t", " ", "e", "x", "p", "r", "e", "s", "s", " ", "=", " ", "r", "e", "q", "u", "i", "r", "e", "(", "'", "e", "x", "p", "r", "e", "s", "s", "'", ")", "\n", "a", "p", "p", ".", "l", "i", "s", "t", "e", "n", "(", "3", "0", "0", "0", ")" >>,
        readable |-> TRUE ],
      [ path |-> << "p", "o", "m", ".", "x", "m", "l" >>,
        content |-> << "<", "p", "r", "o", "j", "e", "c", "t", "/", ">" >>,
        readable |-> TRUE ],
      [ path |-> << "R", "E", "A", "D", "M", "E", ".", "m", "d" >>,
        content |-> << "n", "o", "t", "e", "s" >>,
        readable |-> TRUE ] }

\* ========================================================= function calls
\* A second specification: one function of the services is called once on
\* an input drawn from a bounded set; nothing of the pipeline runs.

MaxList == 2

\* what rglob yields: every path once, each file small or above the size
\* limit
FileLists ==
    LET FileEntries ==
            {[path |-> p, size |-> z] : p \in SamplePaths, z \in {120, 2000000}}
    IN  UNION {{l \in [1..n -> FileEntries] :
                    \A i, j \in 1..n : i # j => l[i].path # l[j].path} :
               n \in 0..MaxList}

\* files_list after _scan_directory: every path once
RepoFileLists ==
    UNION {{l \in [1..n -> RepoFiles] :
                \A i, j \in 1..n : i # j => l[i].path # l[j].path} :
           n \in 0..MaxList}

pipeVars == << shape, dir, projectStatus, progress, activities, fileRows,
               chunkRows, repoRows, savedIndex, pc, cur, runNo, sessionOk,
               file_metadata_list, sorted_files, idx, all_chunks, results,
               exc, calls, sideVars >>

InitFn ==
    /\ shape = [n \in Names |-> [cat |-> "absent", units |-> {}, readable |-> TRUE]]
    /\ dir = [p \in Projects |-> 1]
    /\ NothingStarted
    /\ ret = << >>
    /\ \/ fn = "process_all_files" /\ arg \in FileLists
       \/ fn = "chunk_file" /\ arg \in SourceFiles
       \/ fn = "extract_file_metadata" /\ arg \in SourceFiles
       \/ fn = "semantic_search" /\ arg \in SearchInputs
       \/ fn = "detect_project_type" /\ arg \in RepoFileLists

\* FileProcessor.process_all_files(file_list)
CallProcessAllFiles ==
    /\ fn = "process_all_files"
    /\ ret = << >>
    /\ ret' = << ProcessAllFilesFold(arg, EmptyResults) >>
    /\ UNCHANGED << pipeVars, fn, arg, searcher, indexFiles >>

\* CodeChunker.chunk_file(file_path, language)
CallChunkFile ==
    /\ fn = "chunk_file"
    /\ ret = << >>
    /\ ret' = << ChunkFileContent(arg) >>
    /\ UNCHANGED << pipeVars, fn, arg, searcher, indexFiles >>

\* FileProcessor.extract_file_metadata(file_path)
CallExtractFileMetadata ==
    /\ fn = "extract_file_metadata"
    /\ ret = << >>
    /\ ret' = << ExtractFileMetadata(arg) >>
    /\ UNCHANGED << pipeVars, fn, arg, searcher, indexFiles >>

\* RepositoryAnalyzer._detect_project_type() on a scanned repository
CallDetectProjectType ==
    /\ fn = "detect_project_type"
    /\ ret = << >>
    /\ ret' = << DetectProjectType(arg) >>
    /\ UNCHANGED << pipeVars, fn, arg, searcher, indexFiles >>

\* SemanticSearch.build_index(chunks, embeddings) on the first instance
BuildIndex ==
    /\ fn = "semantic_search"
    /\ ~searcher["built"].loaded
    /\ searcher' = [searcher EXCEPT !["built"] =
                        [loaded |-> TRUE, vectors |-> arg.embeddings,
                         chunk_ids |-> arg.chunk_ids]]
    /\ UNCHANGED << pipeVars, fn, arg, ret, indexFiles >>

\* SemanticSearch.save_index(project_id, save_dir) of the first instance
SaveIndex ==
    /\ fn = "semantic_search"
    /\ searcher["built"].loaded
    /\ ~indexFiles.exists
    /\ indexFiles' = [exists |-> TRUE, vectors |-> searcher["built"].vectors,
                      chunk_ids |-> searcher["built"].chunk_ids]
    /\ UNCHANGED << pipeVars, fn, arg, ret, searcher >>

LoadIndexReversedIds ==
    /\ fn = "semantic_search"
    /\ indexFiles.exists
    /\ ~searcher["fresh"].loaded
    /\ searcher' = [searcher EXCEPT !["fresh"] =
                        [loaded |-> TRUE, vectors |-> indexFiles.vectors,
                         chunk_ids |->
                             [i \in 1..Len(indexFiles.chunk_ids) |->
                                 indexFiles.chunk_ids[Len(indexFiles.chunk_ids) + 1 - i]]]]
    /\ UNCHANGED << pipeVars, fn, arg, ret, indexFiles >>

\* SemanticSearch.load_index(project_id, load_dir) into a second, fresh
\* instance, once the files are there
LoadIndex ==
    /\ fn = "semantic_search"
    /\ indexFiles.exists
    /\ ~searcher["fresh"].loaded
    /\ searcher' = [searcher EXCEPT !["fresh"] =
                        [loaded |-> TRUE, vectors |-> indexFiles.vectors,
                         chunk_ids |-> indexFiles.chunk_ids]]
    /\ UNCHANGED << pipeVars, fn, arg, ret, indexFiles >>

\* SemanticSearch.search(query, top_k) on instance i; the result is kept
\* with whether the instance had an index when it was called
CallSearch(i) ==
    /\ fn = "semantic_search"
    /\ ret = << >>
    /\ ret' = << [ op |-> "search", on |-> i, loaded |-> searcher[i].loaded,
                   value |-> Search(searcher[i], arg.query, arg.top_k, arg.tie) ] >>
    /\ UNCHANGED << pipeVars, fn, arg, searcher, indexFiles >>

\* SemanticSearch.get_similar_chunks(chunk_id, top_k) on instance i
CallGetSimilarChunks(i) ==
    /\ fn = "semantic_search"
    /\ ret = << >>
    /\ ret' = << [ op |-> "get_similar_chunks", on |-> i,
                   loaded |-> searcher[i].loaded,
                   value |-> GetSimilarChunks(searcher[i], arg.chunk_id,
                                              arg.top_k, arg.tie) ] >>
    /\ UNCHANGED << pipeVars, fn, arg, searcher, indexFiles >>

NextFn ==
    \/ CallProcessAllFiles
    \/ CallChunkFile
    \/ CallExtractFileMetadata
    \/ CallDetectProjectType
    \/ BuildIndex
    \/ SaveIndex
    \/ LoadIndex
    \/ \E i \in {"built", "fresh"} : CallSearch(i)
    \/ \E i \in {"built", "fresh"} : CallGetSimilarChunks(i)

SpecFn == InitFn /\ [][NextFn]_vars

\* ----------------------------------- views/analysis.py: start requests
\* A third specification: POST /start requests and the background tasks
\* they queue, any number at a time. start_analysis is an async handler
\* without an await, so it runs on the event loop from the read of
\* project.status to the commit with no other request in between; the
\* tasks run on worker threads next to it. What a task does while it runs
\* is the pipeline of Spec.
MaxRequests == 3

\* how run_preprocessing_task can end: the pipeline returned; it raised
\* and the status was written; it raised and the Session could not write
TaskOutcomes == {"completed", "failed", "failed_unrecorded"}

InitStart ==
    /\ shape = [n \in Names |-> [cat |-> "absent", units |-> {}, readable |-> TRUE]]
    /\ dir = [p \in Projects |-> 1]
    /\ NothingStarted
    /\ fn = "start_analysis"
    /\ arg = << >>
    /\ ret = << >>

startVars == << shape, dir, fn, arg, ret, searcher, indexFiles, agentPc,
                agentFor, agentRuns, dbVars, savedIndex, pc, cur, runNo,
                sessionOk, loopVars, results, exc, calls >>

RequestStartAnalysisNoCheck(p) ==
    /\ response.request_no < MaxRequests
    /\ projectStatus' = [projectStatus EXCEPT ![p] = "processing"]
    /\ tasks' = tasks \cup {[ id |-> response.request_no + 1, project |-> p,
                              phase |-> "queued" ]}
    /\ response' = [ project |-> p, status_code |-> 200,
                     request_no |-> response.request_no + 1 ]
    /\ UNCHANGED startVars

\* start_analysis: HTTP 400 while the project is processing; otherwise the
\* status is committed and run_preprocessing_task is queued
RequestStartAnalysis(p) ==
    /\ response.request_no < MaxRequests
    /\ IF projectStatus[p] = "processing"
       THEN /\ response' = [ project |-> p, status_code |-> 400,
                             request_no |-> response.request_no + 1 ]
            /\ UNCHANGED << projectStatus, tasks >>
       ELSE /\ projectStatus' = [projectStatus EXCEPT ![p] = "processing"]
            /\ tasks' = tasks \cup {[ id |-> response.request_no + 1, project |-> p,
                                      phase |-> "queued" ]}
            /\ response' = [ project |-> p, status_code |-> 200,
                             request_no |-> response.request_no + 1 ]
    /\ UNCHANGED startVars

\* run_preprocessing_task begins: a Session of its own, the orchestrator,
\* run_full_pipeline
RunTask(t) ==
    /\ t \in tasks
    /\ t.phase = "queued"
    /\ tasks' = (tasks \ {t}) \cup {[t EXCEPT !.phase = "running"]}
    /\ UNCHANGED << startVars, projectStatus, response >>

\* run_preprocessing_task ends: project.status completed after the return
\* of run_full_pipeline, failed in the except clause, or left as it is
\* when the query of the except clause raises on the broken Session
EndTask(t, outcome) ==
    /\ t \in tasks
    /\ t.phase = "running"
    /\ projectStatus' = IF outcome = "failed_unrecorded" THEN projectStatus
                        ELSE [projectStatus EXCEPT ![t.project] = outcome]
    /\ tasks' = tasks \ {t}
    /\ UNCHANGED << startVars, response >>

NextStart ==
    \/ \E p \in Projects : RequestStartAnalysis(p)
    \/ \E t \in tasks : RunTask(t)
    \/ \E t \in tasks, outcome \in TaskOutcomes : EndTask(t, outcome)

SpecStart == InitStart /\ [][NextStart]_vars

\* ================================================================ claims
Running == pc \notin {"idle", "queued"}

\* C1: within one run, overall_percentage never decreases from one tracker
\* update to the next.
C1_OverallNeverDecreases ==
    [][Running =>
          progress'[cur].overall_percentage >= progress[cur].overall_percentage]_vars

\* C2: overall_percentage is exactly 100 only when the status is completed.
C2_HundredOnlyWhenCompleted ==
    \A p \in Projects :
        progress[p].overall_percentage = 100 * Scale => progress[p].status = "completed"

\* C3: overall_percentage and current_stage_percentage lie in [0, 100].
C3_PercentagesInRange ==
    \A p \in Projects :
        /\ 0 <= progress[p].overall_percentage
        /\ progress[p].overall_percentage <= 100 * Scale
        /\ 0 <= progress[p].current_stage_percentage
        /\ progress[p].current_stage_percentage <= 100 * Scale

\* C4: when a stage of run_full_pipeline has raised and the exception
\* handler has run, the progress row has status failed and its
\* error_message is the error's message (and not completed).
C4_StageErrorMarksFailed ==
    pc = "raised" =>
        /\ progress[cur].status = "failed"
        /\ progress[cur].error_message = results.error

\* C5: run_full_pipeline never propagates a stage failure to its caller;
\* it returns the results dict with status failed and the error.
C5_FailureIsReturned ==
    results.status = "failed" => pc # "raised"

PipelineStages == << "file_processing", "code_chunking", "semantic_indexing" >>

StartCalls == SelectSeq(calls, LAMBDA c : c[1] = "start_stage")

\* C6: within one run start_stage is called for file_processing, then
\* code_chunking, then semantic_indexing, in that order, and never before
\* complete_stage was called for every stage started earlier in the run.
C6_StagesStrictlyOrdered ==
    /\ Len(StartCalls) <= Len(PipelineStages)
    /\ \A i \in 1..Len(StartCalls) : StartCalls[i][2] = PipelineStages[i]
    /\ \A i \in 1..Len(calls) :
          calls[i][1] = "start_stage" =>
              \A j \in 1..(i - 1) :
                  calls[j][1] = "start_stage" =>
                      \E k \in (j + 1)..(i - 1) :
                          calls[k] = << "complete_stage", calls[j][2] >>

\* C6 witness: a run that has started all three stages
C6_Witness ==
    /\ Len(StartCalls) = 3
    /\ calls[Len(calls)] = << "complete_stage", "semantic_indexing" >>

\* C7: once complete_processing or mark_failed has stamped the row, no
\* later tracker operation changes its status away from completed / failed.
C7_TerminalStatusStays ==
    [][\A p \in Projects :
          (progress[p].status \in {"completed", "failed"} /\ progress[p].completed_at # 0)
              => progress'[p].status = progress[p].status]_vars

\* ids of the chunks the running task is about to store
IncomingChunkIds ==
    {c.id : c \in SeqRange(ChunkFileOf(cur, sorted_files[idx + 1]))}

\* C8: a chunk stored for one project never blocks a chunk of another
\* project: a run is never stopped by a stored row of a different project.
C8_NoCrossProjectBlocking ==
    (pc = "except" /\ exc = "integrity_error") =>
        \A r \in chunkRows : r.id \in IncomingChunkIds => r.project_id = cur

\* C9: re-running the pipeline for the same project on unchanged input
\* completes: the run is never stopped by the rows the project's earlier
\* run stored under the same chunk ids.
C9_RerunNotBlockedByOwnChunks ==
    (pc = "except" /\ exc = "integrity_error") =>
        \A r \in chunkRows : r.id \in IncomingChunkIds => r.project_id # cur

\* C10: after the file_processing stage completes, this run has created
\* exactly one FileRecord for every file under the project root.
C10_OneFileRecordPerFile ==
    pc = "code_chunking" =>
        \A n \in SeqRange(FileList) :
            Cardinality({r \in fileRows :
                            /\ r.project_id = cur
                            /\ r.file_path = PathOf(cur, n)
                            /\ r.id[1] = runNo}) = 1

\* C11: when the code_chunking stage of a project's first run has gone
\* through its files, the activity log holds exactly one warning activity
\* for every unreadable file.
C11_UnreadableFileWarned ==
    (pc = "semantic_indexing" /\ progress[cur].started_at = runNo) =>
        Cardinality({i \in 1..Len(activities[cur]) :
                        activities[cur][i].activity_type = "warning"})
            = Cardinality({n \in SeqRange(sorted_files) : ~shape[n].readable})

\* C12: whenever a project's run has ended completed, its index artifact
\* and chunk-id list exist and load_index with the search endpoint's
\* directory succeeds.
C12_CompletedRunHasLoadableIndex ==
    \A p \in Projects :
        projectStatus[p] = "completed" =>
            /\ savedIndex[p].exists
            /\ LoadIndexOutcome(p, SearchIndexDir) = "loaded"

\* C19: skipped files are never chunked: no CodeChunk carries the path of
\* a file of its project whose FileRecord has should_skip set, and
\* chunk_file was not invoked for such a file (is_processed stays unset).
C19_SkippedFilesNeverChunked ==
    \A r \in fileRows :
        r.should_skip =>
            /\ ~r.is_processed
            /\ \A c \in chunkRows :
                  c.project_id = r.project_id => c.file_path # r.file_path

\* C19 witness: a project with a skipped file's record and stored chunks of
\* another of its files, after the chunking loop
C19_Witness ==
    /\ pc = "semantic_indexing"
    /\ \E r \in fileRows : r.should_skip /\ r.project_id = cur /\ r.id[1] = runNo
    /\ \E c \in chunkRows : c.project_id = cur /\ c.file_id[1] = runNo

\* C18: the skip_reason recorded for every file classified skip is one of
\* binary, too_large, pattern, unknown_type, and it is pattern when the
\* path matches a configured skip name or suffix pattern and the file is
\* neither binary nor too large.
C18_SkipReasonInEnum ==
    (fn = "process_all_files" /\ ret # << >>) =>
        \A row \in SkipRows(ret[1]) :
            /\ row.skip_reason \in {<< "binary" >>, << "too_large" >>,
                                    << "pattern" >>, << "unknown_type" >>}
            /\ (/\ \E k \in 1..Len(SKIP_PATTERNS) :
                      IF StartsWith(SKIP_PATTERNS[k], << "*", "." >>)
                      THEN EndsWith(row.file_path,
                                    SubSeq(SKIP_PATTERNS[k], 2, Len(SKIP_PATTERNS[k])))
                      ELSE Contains(Lower(row.file_path), SKIP_PATTERNS[k])
                /\ ~IsBinary(row.file_path)
                /\ \A e \in SeqRange(arg) :
                       e.path = row.file_path => e.size <= SizeLimit)
               => row.skip_reason = << "pattern" >>

\* C20: process_all_files places every path of its input list in exactly
\* one category: no path is dropped and none appears twice.
C20_ClassificationTotalSingleValued ==
    (fn = "process_all_files" /\ ret # << >>) =>
        /\ DOMAIN ret[1] = Categories
        /\ \A i \in 1..Len(arg) :
              Cardinality({<< c, k >> \in Categories \X (1..Len(arg)) :
                              /\ k <= Len(ret[1][c])
                              /\ ret[1][c][k].file_path = arg[i].path}) = 1
        /\ \A c \in Categories : Len(ret[1][c]) <= Len(arg)

\* C20 witness: a list of two files that were put in the same category
C20_Witness ==
    /\ fn = "process_all_files"
    /\ ret # << >>
    /\ Len(arg) = 2
    /\ \E c \in Categories : Len(ret[1][c]) = 2

\* C16: every chunk chunk_file returns, whatever the strategy, has
\* 1 <= start_line <= end_line <= the number of lines of its file.
C16_ChunkLinesWithinFile ==
    (fn = "chunk_file" /\ ret # << >>) =>
        \A i \in 1..Len(ret[1]) :
            /\ 1 <= ret[1][i].start_line
            /\ ret[1][i].start_line <= ret[1][i].end_line
            /\ ret[1][i].end_line <= Len(SplitLines(arg.content))

\* C17: every complexity value is at least 1, the complexity of every
\* chunk and the complexity_score that extract_file_metadata hands to the
\* FileRecord alike (a fraction num / den of at least 1).
C17_EveryComplexityAtLeastOne ==
    /\ (fn = "chunk_file" /\ ret # << >>) =>
          \A i \in 1..Len(ret[1]) : ret[1][i].complexity >= 1
    /\ (fn = "extract_file_metadata" /\ ret # << >>) =>
          ret[1].complexity_score.num >= ret[1].complexity_score.den

\* C13: get_similar_chunks(chunk_id, top_k) never has chunk_id in its
\* result, whatever the size of the index and the embeddings of the others.
C13_SimilarExcludesItself ==
    (fn = "semantic_search" /\ ret # << >> /\ ret[1].op = "get_similar_chunks") =>
        \A i \in 1..Len(ret[1].value) : ret[1].value[i] # arg.chunk_id

\* C14 as stated: search(query, top_k) returns at most top_k results, of
\* strictly descending similarity_score, with the ranks 1..len(results).
C14_SearchStrictlyDescending ==
    (fn = "semantic_search" /\ ret # << >> /\ ret[1].op = "search") =>
        /\ Len(ret[1].value) <= arg.top_k
        /\ \A i \in 1..(Len(ret[1].value) - 1) :
              ret[1].value[i].similarity_score.num
                      * ret[1].value[i + 1].similarity_score.den
                  > ret[1].value[i + 1].similarity_score.num
                      * ret[1].value[i].similarity_score.den
        /\ \A i \in 1..Len(ret[1].value) : ret[1].value[i].rank = i

\* C14 amended: search(query, top_k) returns at most top_k results, none
\* of a higher similarity_score than the one before it (equal scores stay
\* side by side), with the ranks 1..len(results).
C14_SearchNeverAscending ==
    (fn = "semantic_search" /\ ret # << >> /\ ret[1].op = "search") =>
        /\ Len(ret[1].value) <= arg.top_k
        /\ \A i \in 1..(Len(ret[1].value) - 1) :
              ret[1].value[i].similarity_score.num
                      * ret[1].value[i + 1].similarity_score.den
                  >= ret[1].value[i + 1].similarity_score.num
                      * ret[1].value[i].similarity_score.den
        /\ \A i \in 1..Len(ret[1].value) : ret[1].value[i].rank = i

\* C14 witness: a search that returned two results of the same score
C14_Witness ==
    /\ fn = "semantic_search"
    /\ ret # << >>
    /\ ret[1].op = "search"
    /\ Len(ret[1].value) >= 2
    /\ ret[1].value[1].similarity_score = ret[1].value[2].similarity_score

C30_SearchOnlyIndexedOnce ==
    (fn = "semantic_search" /\ ret # << >> /\ ret[1].op = "search") =>
        LET self == searcher[ret[1].on]
            value == ret[1].value
        IN  /\ Len(value) <= Len(self.vectors)
            /\ \A i \in 1..Len(value) : value[i].chunk_id \in SeqRange(self.chunk_ids)
            /\ \A i, j \in 1..Len(value) :
                  i # j => value[i].chunk_id # value[j].chunk_id

C26_CodeIsRecordedLines ==
    (fn = "chunk_file" /\ ret # << >>) =>
        \A i \in 1..Len(ret[1]) :
            ret[1][i].code =
                JoinLines(Slice(SplitLines(arg.content),
                                ret[1][i].start_line - 1, ret[1][i].end_line))

\* C27: a class with m directly nested function definitions gives exactly
\* one class chunk and exactly m method chunks, each with parent_class the
\* name of the class, and no further chunk for any of those m functions.
C27_ClassGivesClassAndMethodChunksOnly ==
    (/\ fn = "chunk_file"
     /\ ret # << >>
     /\ arg.readable
     /\ arg.language = "python"
     /\ arg.parse.ok) =>
        \A n \in 1..Len(arg.parse.nodes) :
            LET node == arg.parse.nodes[n]
                chunks == ret[1]
                of(type, name, line) ==
                    {i \in 1..Len(chunks) :
                        /\ chunks[i].chunk_type = type
                        /\ chunks[i].name = name
                        /\ chunks[i].start_line = line}
            IN  node.type = "ClassDef" =>
                    /\ Cardinality(of("class", node.name, node.lineno)) = 1
                    /\ Cardinality({i \in 1..Len(chunks) :
                                       /\ chunks[i].chunk_type = "method"
                                       /\ chunks[i].parent_class = node.name})
                           = Len(node.methods)
                    /\ \A k \in 1..Len(node.methods) :
                          /\ Cardinality(of("method", node.methods[k].name,
                                            node.methods[k].lineno)) = 1
                          /\ of("function", node.methods[k].name,
                                node.methods[k].lineno) = {}

\* C21: _detect_project_type returns the type unknown with confidence 0
\* whenever no signature scores above zero: no characteristic file, no
\* config file and no content indicator of any signature is there.
C21_NoScoreGivesUnknown ==
    (/\ fn = "detect_project_type"
     /\ ret # << >>
     /\ \A i \in 1..Len(PROJECT_PATTERNS) :
           SignatureScore(arg, PROJECT_PATTERNS[i]).num = 0) =>
        /\ ret[1][1] = "unknown"
        /\ ret[1][2].num = 0

\* C24: update_file_progress and update_chunk_progress do not append an
\* info activity on every call: one is appended only for every Nth item
\* (some N above 1) or for the last item of the stage.
C24_ItemActivitiesThrottled ==
    [][\A p \in Projects :
          LET added == activities'[p][Len(activities'[p])]
              called == SelectSeq(SubSeq(sorted_files, 1, idx'), LAMBDA name :
                            \E r \in fileRows :
                                /\ r.id = << runNo, name >>
                                /\ ~r.should_skip
                                /\ r.language # "none")
              to_call == SelectSeq(sorted_files, LAMBDA name :
                            \E r \in fileRows :
                                /\ r.id = << runNo, name >>
                                /\ ~r.should_skip
                                /\ r.language # "none")
              item == IF pc = "fp_loop" THEN idx' ELSE Len(called)
              last == IF pc = "fp_loop"
                      THEN Len(ProcessAllFiles(FileList, "process"))
                      ELSE Len(to_call)
          IN  (/\ Len(activities'[p]) > Len(activities[p])
               /\ pc \in {"fp_loop", "cc_loop"}
               /\ idx' = idx + 1
               /\ added.activity_type = "info"
               /\ added.kind \in {"file", "chunks"}) =>
                  \/ item = last
                  \/ \E N \in 2..10 : item % N = 0]_vars

\* C22: when run_full_pipeline has returned completed, the activity log of
\* the project holds, for every stage that ran (repository analysis, file
\* processing, code chunking, and semantic indexing when there were chunks
\* to index), a start milestone of the stage and later a completion
\* success of the same stage.
C22_EveryStageReportsStartAndCompletion ==
    (pc = "returned" /\ results.status = "completed") =>
        LET log == activities[cur]
            ran == {"analysis", "file_processing", "code_chunking"}
                       \cup (IF all_chunks # << >> THEN {"semantic_indexing"} ELSE {})
        IN  \A s \in ran :
                \E i, j \in 1..Len(log) :
                    /\ i < j
                    /\ log[i].activity_type = "milestone"
                    /\ log[i].kind = "started"
                    /\ log[i].stage = s
                    /\ log[j].activity_type = "success"
                    /\ log[j].kind = "completed"
                    /\ log[j].stage = s

\* C29: whenever the status of a progress record is completed, its
\* error_message is null: a run that completes after a failed run of the
\* same project leaves nothing of the failure in the record.
C29_CompletedHasNoErrorMessage ==
    \A p \in Projects :
        (progress[p].exists /\ progress[p].status = "completed") =>
            progress[p].error_message = "none"

\* C23: status, current_stage and overall_percentage of a project's
\* progress record are written through ProgressTracker only: no step of
\* the multi-agent analysis writes them, so none can overwrite or move
\* backward what the tracker of a preprocessing run recorded.
C23_OnlyTrackerWritesProgress ==
    [][\A p \in Projects :
          (agentPc' # agentPc) =>
              /\ progress'[p].status = progress[p].status
              /\ progress'[p].current_stage = progress[p].current_stage
              /\ progress'[p].overall_percentage = progress[p].overall_percentage]_vars

\* C28: at most one preprocessing run of a project is queued or running at
\* any time, and a start request for a project whose status is processing
\* is rejected without queuing a task.
C28_OneRunPerProject ==
    /\ [](\A p \in Projects : Cardinality({t \in tasks : t.project = p}) <= 1)
    /\ [][\A p \in Projects :
             (/\ response'.request_no # response.request_no
              /\ response'.project = p
              /\ projectStatus[p] = "processing") =>
                 /\ response'.status_code = 400
                 /\ tasks' = tasks
                 /\ projectStatus' = projectStatus]_vars

\* C28 witness: a second request for a project was rejected while the
\* task of the first is running
C28_Witness ==
    /\ response.status_code = 400
    /\ \E t \in tasks : t.project = response.project /\ t.phase = "running"

====
